---- MODULE Spec2Model ----
(***************************************************************************)
(* Model of the edge forward-proxy workers of AliFarahani01/proxy.         *)
(*                                                                         *)
(*   SpecApp   src/app.js: handle() with the response cache (caches.default)*)
(*             and the token check, several requests in flight.            *)
(*   SpecPick  the node pickers of app.js, worker.js, part_000, part_002:  *)
(*             filter, probe, rank.                                        *)
(*   SpecPipe  the fetch handlers of worker.js (first and second variant)  *)
(*             and part_002, step by step, with the failures each step can *)
(*             raise and the try block each step is in.                    *)
(*   SpecOut   the outbound request: the forwarded URL and the forwarded   *)
(*             headers, for inbound requests drawn from small sets.        *)
(*   SpecFwd   the fetch through the chosen node and the response built    *)
(*             from the upstream's: URL fetched, headers, HTML rewriting.  *)
(*   SpecList  the node list: loading it from DNS_KV or DNS_RAW_URL and    *)
(*             refreshing it.                                              *)
(*   SpecRw    the HTML rewriters of app.js, worker.js and part_002 on one *)
(*             href, src or action attribute.                              *)
(*   SpecRelay the WebSocket relays of WSProxy.js, app.js, dashboard.js    *)
(*             and worker.js: sessions, messages both ways, closing.       *)
(*   SpecTunnel handleTunnel of worker.js and part_000: the messages of    *)
(*             one socket and the replies to them.                         *)
(*   SpecCalls the external calls one request awaits, with and without a   *)
(*             timer, under weak fairness of the handler and the timers.   *)
(*   SpecNorm  the node normalisations of app.js, worker.js and part_000,  *)
(*             applied twice to one string.                                *)
(*                                                                         *)
(* Strings are TLA+ strings; Len, \o and SubSeq act on them as on          *)
(* sequences of characters.                                                *)
(***************************************************************************)
EXTENDS Integers, Sequences, FiniteSets, TLC

VARIABLES
  cache,      \* app.js caches.default: cache key -> entry or NoEntry
  req,        \* app.js: the handle() invocations in flight, by slot
  sent,       \* app.js: the exchange handle() has just completed, or NoExchange
  lastStore,  \* history: per target, seconds since a GET wrote the cache, -1: TTL over
  env,        \* app.js: the Worker's secrets AUTH_TOKEN and ADMIN_PASS
  pk,         \* one run of a node picker: its candidates and their probes
  pl,         \* one run of a worker's fetch handler: its position and outcome
  ob,         \* one outbound request: the inbound request and what is built from it
  fw,         \* one forward: the URL fetched and the response built
  dl,         \* the node list: DNS_KV and one load or refresh
  rw,         \* one attribute of a page and what the rewriter makes of it
  rl,         \* the relay: its sessions, their endpoints and the live set
  tn,         \* one tunnel session: the messages received and the replies sent
  xc,         \* one request: the external calls its handler awaits, one after another
  nz          \* a node string under normalisation

appVars == <<cache, req, sent, lastStore, env>>
vars == <<cache, req, sent, lastStore, env, pk, pl, ob, fw, dl, rw, rl, tn, xc, nz>>
exceptApp == <<pk, pl, ob, fw, dl, rw, rl, tn, xc, nz>>
exceptPick == <<cache, req, sent, lastStore, env, pl, ob, fw, dl, rw, rl, tn, xc, nz>>
exceptPipe == <<cache, req, sent, lastStore, env, pk, ob, fw, dl, rw, rl, tn, xc, nz>>
exceptOut == <<cache, req, sent, lastStore, env, pk, pl, fw, dl, rw, rl, tn, xc, nz>>
exceptFwd == <<cache, req, sent, lastStore, env, pk, pl, ob, dl, rw, rl, tn, xc, nz>>
exceptList == <<cache, req, sent, lastStore, env, pk, pl, ob, fw, rw, rl, tn, xc, nz>>
exceptRw == <<cache, req, sent, lastStore, env, pk, pl, ob, fw, dl, rl, tn, xc, nz>>
exceptRelay == <<cache, req, sent, lastStore, env, pk, pl, ob, fw, dl, rw, tn, xc, nz>>
exceptTunnel == <<cache, req, sent, lastStore, env, pk, pl, ob, fw, dl, rw, rl, xc, nz>>
exceptCalls == <<cache, req, sent, lastStore, env, pk, pl, ob, fw, dl, rw, rl, tn, nz>>
exceptNorm == <<cache, req, sent, lastStore, env, pk, pl, ob, fw, dl, rw, rl, tn, xc>>

---------------------------------------------------------------------------
(* Characters and strings                                                  *)

UpperChars == "ABCDEFGHIJKLMNOPQRSTUVWXYZ"
LowerChars == "abcdefghijklmnopqrstuvwxyz"

CharAt(s, i) == SubSeq(s, i, i)

\* String.prototype.toLowerCase on one character
LowerOf ==
  [c \in {CharAt(UpperChars, i) : i \in 1..Len(UpperChars)} |->
     CharAt(LowerChars, CHOOSE i \in 1..Len(UpperChars) : CharAt(UpperChars, i) = c)]

LowerChar(c) == IF c \in DOMAIN LowerOf THEN LowerOf[c] ELSE c

RECURSIVE ToLower(_)
ToLower(s) ==
  IF Len(s) = 0 THEN ""
  ELSE LowerChar(CharAt(s, 1)) \o ToLower(SubSeq(s, 2, Len(s)))

\* the characters \s and String.prototype.trim treat as white space
IsSpace(c) == c \in {" ", "\t", "\n", "\r"}

RECURSIVE TrimStart(_)
TrimStart(s) ==
  IF Len(s) > 0 /\ IsSpace(CharAt(s, 1)) THEN TrimStart(SubSeq(s, 2, Len(s))) ELSE s

RECURSIVE TrimEnd(_)
TrimEnd(s) ==
  IF Len(s) > 0 /\ IsSpace(CharAt(s, Len(s))) THEN TrimEnd(SubSeq(s, 1, Len(s) - 1)) ELSE s

\* String.prototype.trim
Trim(s) == TrimEnd(TrimStart(s))

\* String.prototype.startsWith
StartsWith(s, p) == Len(s) >= Len(p) /\ SubSeq(s, 1, Len(p)) = p

\* the regular expression /^\s*https?:\/\//i
HasHttpScheme(u) ==
  LET t == ToLower(TrimStart(u))
  IN  StartsWith(t, "http://") \/ StartsWith(t, "https://")

\* the regular expression /^https?:\/\//i
BeginsWithScheme(t) ==
  StartsWith(ToLower(t), "http://") \/ StartsWith(ToLower(t), "https://")

\* decodeURIComponent: the escapes the inputs below use; a "%" that does not
\* start a well-formed escape raises URIError
PercentEscapes == {"20", "23", "25", "26", "2F", "3A", "3D", "3F"}

EscapeChar(h) ==
  CASE h = "20" -> " " [] h = "23" -> "#" [] h = "25" -> "%" [] h = "26" -> "&"
    [] h = "2F" -> "/" [] h = "3A" -> ":" [] h = "3D" -> "=" [] h = "3F" -> "?"

\* a place near the middle of s that is not inside an escape: so many
\* characters of s can be decoded apart from the rest
DecodeCut(s) ==
  LET half == Len(s) \div 2
  IN  IF CharAt(s, half) = "%" THEN half - 1
      ELSE IF CharAt(s, half - 1) = "%" THEN half - 2
      ELSE half

RECURSIVE decodeURIComponent(_)
decodeURIComponent(s) ==
  IF Len(s) = 0 THEN [ok |-> TRUE, val |-> ""]
  ELSE IF Len(s) >= 6
    THEN LET l == decodeURIComponent(SubSeq(s, 1, DecodeCut(s)))
             r == decodeURIComponent(SubSeq(s, DecodeCut(s) + 1, Len(s)))
         IN  IF l.ok /\ r.ok THEN [ok |-> TRUE, val |-> l.val \o r.val]
             ELSE [ok |-> FALSE, val |-> ""]
  ELSE IF CharAt(s, 1) = "%"
    THEN IF Len(s) >= 3 /\ SubSeq(s, 2, 3) \in PercentEscapes
         THEN LET r == decodeURIComponent(SubSeq(s, 4, Len(s)))
              IN  [ok |-> r.ok, val |-> IF r.ok THEN EscapeChar(SubSeq(s, 2, 3)) \o r.val ELSE ""]
         ELSE [ok |-> FALSE, val |-> ""]
    ELSE LET r == decodeURIComponent(SubSeq(s, 2, Len(s)))
         IN  [ok |-> r.ok, val |-> IF r.ok THEN CharAt(s, 1) \o r.val ELSE ""]

\* encodeURIComponent: letters, digits and - _ . ! ~ * ' ( ) stay, every other
\* character becomes its escape
Unreserved == "ABCDEFGHIJKLMNOPQRSTUVWXYZabcdefghijklmnopqrstuvwxyz0123456789-_.!~*'()"

IsUnreserved(c) == \E i \in 1..Len(Unreserved) : CharAt(Unreserved, i) = c

EscapeOf(c) == "%" \o (CHOOSE h \in PercentEscapes : EscapeChar(h) = c)

RECURSIVE encodeURIComponent(_)
encodeURIComponent(s) ==
  IF Len(s) = 0 THEN ""
  ELSE IF Len(s) = 1 THEN (IF IsUnreserved(s) THEN s ELSE EscapeOf(s))
  ELSE encodeURIComponent(SubSeq(s, 1, Len(s) \div 2))
         \o encodeURIComponent(SubSeq(s, Len(s) \div 2 + 1, Len(s)))

\* String.prototype.replace(/\/+$/, '')
RECURSIVE StripSlashes(_)
StripSlashes(s) ==
  IF Len(s) > 0 /\ CharAt(s, Len(s)) = "/" THEN StripSlashes(SubSeq(s, 1, Len(s) - 1)) ELSE s

\* String.prototype.includes
Includes(s, part) ==
  \E i \in 1..(Len(s) - Len(part) + 1) : SubSeq(s, i, i + Len(part) - 1) = part

---------------------------------------------------------------------------
(* src/app.js                                                              *)

NODES == << "https://1.1.1.1/", "https://8.8.8.8/", "https://9.9.9.9/",
            "https://208.67.222.222/", "https://76.76.2.0/" >>

CACHE_TTL == 20
BENCH_TIMEOUT == 2000
MAX_CACHE_BYTES == 1048576

\* byte length of the text injectionScript() returns
InjectLen == 1011

\* bounds of the model
NumSlots == 2       \* handle() invocations in flight at once
TickStep == 10      \* seconds the clock advances in one step

\* the value Infinity, above every elapsed time
Infinity == 1000000000

NoNode == "null"

\* normalizeUrl
normalizeUrl(u) ==
  IF u = "" THEN ""
  ELSE IF ~HasHttpScheme(u) THEN "http://" \o Trim(u)
  ELSE Trim(u)

\* pickFastestNode: results[i] is what benchNode(nodes[i]) resolved to
RECURSIVE BestFrom(_, _, _, _, _)
BestFrom(nodes, results, i, best, bestTime) ==
  IF i > Len(results) THEN best
  ELSE IF results[i] < bestTime
       THEN BestFrom(nodes, results, i + 1, nodes[i], results[i])
       ELSE BestFrom(nodes, results, i + 1, best, bestTime)

pickFastestNode(nodes, results) ==
  IF Len(nodes) = 0 THEN NoNode
  ELSE LET best == BestFrom(nodes, results, 1, NoNode, Infinity)
       IN  IF best # NoNode THEN best ELSE nodes[1]

\* benchNode: the elapsed time when the HEAD request answers before the abort,
\* Infinity when it fails or is aborted
ProbeTimes == {50, 100}
BenchOutcomes == {t \in ProbeTimes : t < BENCH_TIMEOUT} \cup {Infinity}

\* the probe rounds handle() sees here: the first node fastest, the second node
\* fastest, no node answering
ProbeRounds == { <<50, 100, Infinity, Infinity, Infinity>>,
                 <<100, 50, Infinity, Infinity, Infinity>>,
                 <<Infinity, Infinity, Infinity, Infinity, Infinity>> }

\* a cache key that leaves the method out
cacheKey_NoMethod(target, method) == "v5::" \o target

\* the cache key of handle(): `v5::${target}::${method}`
cacheKey(target, method) == "v5::" \o target \o "::" \o method

LookupEligible_HeadOnly(method) == method = "HEAD"

\* handle(): the methods whose cache entry is looked up
LookupEligible(method) == method = "GET" \/ method = "HEAD"

StoreEligible_NoCeiling(method, bytes) == method = "GET"

\* handle(): what is written to the cache
StoreEligible(method, bytes) == method = "GET" /\ bytes <= MAX_CACHE_BYTES

\* caches.default honours the entry's Cache-Control: max-age=${CACHE_TTL}
EntryFresh(e) == e.age < CACHE_TTL

\* inputs of handle()
Methods == {"GET", "HEAD", "POST"}
EnvChoices == { [AUTH_TOKEN |-> "secret", ADMIN_PASS |-> "pw"],
                [AUTH_TOKEN |-> "", ADMIN_PASS |-> ""] }
UrlParams == {"example.com", "http://example.com", "https://b.org", "%"}

\* a request's query string and headers: ?admin&pass=, ?ws=, ?url=&t=, x-auth-token
Query(admin, pass, ws, hasUrl, url, t, xAuth) ==
  [admin |-> admin, pass |-> pass, ws |-> ws, hasUrl |-> hasUrl, url |-> url,
   t |-> t, xAuth |-> xAuth]

NoQuery == Query(FALSE, "", FALSE, FALSE, "", "", "")

Queries ==
       {Query(TRUE, p, FALSE, FALSE, "", "", "") : p \in {"pw", ""}}
  \cup {Query(FALSE, "", TRUE, TRUE, "example.com", "secret", "")}
  \cup {NoQuery}
  \cup {Query(FALSE, "", FALSE, TRUE, u, "secret", "") : u \in UrlParams}
  \cup {Query(FALSE, "", FALSE, TRUE, "example.com", t, x) :
          t \in {"wrong", ""}, x \in {"secret", ""}}
  \cup {Query(TRUE, p, FALSE, TRUE, "example.com", "", "") : p \in {"pw", ""}}
  \cup {Query(FALSE, "", TRUE, TRUE, "example.com", "", "")}

\* a body: whether it is HTML, its byte length, how often it went through
\* rewriteHtml + injectionScript
Body(html, bytes, rewrites) == [html |-> html, bytes |-> bytes, rewrites |-> rewrites]

\* what the target answers: status, content type text/html or not, body length
Upstream(status, html, bytes) == [status |-> status, body |-> Body(html, bytes, 0)]

Upstreams == { Upstream(200, TRUE, 1), Upstream(200, FALSE, MAX_CACHE_BYTES),
               Upstream(404, FALSE, 1), Upstream(200, FALSE, MAX_CACHE_BYTES + 1),
               Upstream(200, TRUE, MAX_CACHE_BYTES) }

NoBody == Body(FALSE, 0, 0)
NoUp == [status |-> 0, body |-> NoBody]
NoResp == [status |-> 0, marker |-> "", body |-> NoBody, text |-> ""]
NoEntry == [status |-> 0, body |-> NoBody, age |-> -1]

Targets == { normalizeUrl(decodeURIComponent(u).val) :
               u \in {x \in UrlParams : decodeURIComponent(x).ok} }
CacheKeys == { cacheKey(t, m) : t \in Targets, m \in Methods }

\* one handle() invocation; named, presented: whether the request had the url
\* parameter, and the token it came with
IdleReq == [pc |-> "idle", query |-> NoQuery, route |-> "", method |-> "", target |-> "",
            named |-> FALSE, presented |-> "",
            expectHit |-> FALSE, lookedUp |-> FALSE, hit |-> FALSE,
            probed |-> FALSE, forwarded |-> FALSE, node |-> NoNode, up |-> NoUp,
            putTried |-> FALSE, putFailed |-> FALSE, resp |-> NoResp]

NoExchange == IdleReq

\* the Response handle() returns
Response(status, marker, body, text) ==
  [status |-> status, marker |-> marker, body |-> body, text |-> text]

\* handle(): catch (err) -> 502 "Proxy internal error: " + String(err)
ErrorResponse(err) == Response(502, "", NoBody, "Proxy internal error: " \o err)

\* handle() returns resp
Return(rq, resp) == [rq EXCEPT !.pc = "done", !.query = NoQuery, !.resp = resp]

Slots == 1..NumSlots

\* handle(): url.searchParams.get("t") || req.headers.get("x-auth-token") || ""
ProvidedToken(q) == IF q.t # "" THEN q.t ELSE q.xAuth

\* a check that lets every request through
Authorized_Open(q) == TRUE

\* handle(): if (!authToken || provided !== authToken) -> 401
Authorized(q) == env.AUTH_TOKEN # "" /\ ProvidedToken(q) = env.AUTH_TOKEN

\* adminHandler
adminHandler(rq) ==
  IF env.ADMIN_PASS = "" \/ rq.query.pass # env.ADMIN_PASS
  THEN Return(rq, Response(401, "", NoBody, "Admin: provide pass"))
  ELSE Return([rq EXCEPT !.probed = TRUE], Response(200, "", NoBody, "Nodes benchmark"))

\* the lookup that passes the cached body through rewriting and injection
Lookup_RewritesAgain(rq) ==
  LET e == cache[cacheKey(rq.target, rq.method)]
      again == IF e.body.html
               THEN Body(TRUE, e.body.bytes + InjectLen, e.body.rewrites + 1)
               ELSE e.body
  IN  IF LookupEligible(rq.method)
      THEN IF e # NoEntry /\ EntryFresh(e)
           THEN Return([rq EXCEPT !.lookedUp = TRUE, !.hit = TRUE],
                       Response(e.status, "HIT", again, ""))
           ELSE [rq EXCEPT !.pc = "pick", !.query = NoQuery, !.lookedUp = TRUE]
      ELSE [rq EXCEPT !.pc = "pick", !.query = NoQuery]

Lookup_NoEarlyReturn(rq) ==
  LET e == cache[cacheKey(rq.target, rq.method)]
  IN  IF LookupEligible(rq.method) /\ e # NoEntry /\ EntryFresh(e)
      THEN [rq EXCEPT !.pc = "pick", !.query = NoQuery, !.lookedUp = TRUE, !.hit = TRUE]
      ELSE [rq EXCEPT !.pc = "pick", !.query = NoQuery, !.lookedUp = LookupEligible(rq.method)]

\* handle(), the cache lookup: cache.match(cacheKey) and the HIT answer
Lookup(rq) ==
  LET e == cache[cacheKey(rq.target, rq.method)]
  IN  IF LookupEligible(rq.method)
      THEN IF e # NoEntry /\ EntryFresh(e)
           THEN Return([rq EXCEPT !.lookedUp = TRUE, !.hit = TRUE],
                       Response(e.status, "HIT", e.body, ""))
           ELSE [rq EXCEPT !.pc = "pick", !.query = NoQuery, !.lookedUp = TRUE]
      ELSE [rq EXCEPT !.pc = "pick", !.query = NoQuery]

\* history: a GET wrote the entry of this target and its max-age has not run out
StoredAndFresh(target) == lastStore[target] >= 0

\* handle(), from its first line to the cache lookup
Handle(rq0) ==
  LET q == rq0.query
      rq == [rq0 EXCEPT !.named = q.hasUrl, !.presented = ProvidedToken(q)]
      d == decodeURIComponent(q.url)
      target == normalizeUrl(d.val)
  IN  IF q.admin THEN adminHandler([rq EXCEPT !.route = "admin"])
      ELSE IF q.ws
        THEN Return([rq EXCEPT !.route = "ws"], Response(501, "", NoBody, "WebSocket shim"))
      ELSE IF ~q.hasUrl
        THEN Return([rq EXCEPT !.route = "ui"], Response(200, "", NoBody, "ui"))
      ELSE IF ~Authorized(q)
        THEN Return([rq EXCEPT !.route = "denied"], Response(401, "", NoBody, "Unauthorized"))
      ELSE IF ~d.ok
        THEN Return([rq EXCEPT !.route = "proxy"], ErrorResponse("URIError: URI malformed"))
      ELSE Lookup([rq EXCEPT !.route = "proxy", !.target = target,
                             !.expectHit = StoredAndFresh(target)])

\* the invocation in slot r goes on as rq, or has returned: the exchange is sent
Settle(r, rq) ==
  IF rq.pc = "done"
  THEN /\ sent' = rq
       /\ req' = [req EXCEPT ![r] = IdleReq]
  ELSE /\ sent' = NoExchange
       /\ req' = [req EXCEPT ![r] = rq]

\* the runtime sends the Response handle() returned
Deliver ==
  /\ sent # NoExchange
  /\ sent' = NoExchange
  /\ UNCHANGED <<cache, req, lastStore, env>>
  /\ UNCHANGED exceptApp

\* a request arrives: addEventListener("fetch") -> handle(event.request)
Receive(r) ==
  /\ sent = NoExchange
  /\ req[r].pc = "idle"
  /\ \E q \in Queries, m \in Methods :
       Settle(r, Handle([IdleReq EXCEPT !.query = q, !.method = m]))
  /\ UNCHANGED <<cache, lastStore, env>>
  /\ UNCHANGED exceptApp

\* handle(): const node = await pickFastestNode(NODES)
Pick(r) ==
  /\ sent = NoExchange
  /\ req[r].pc = "pick"
  /\ \E results \in ProbeRounds :
       Settle(r, [req[r] EXCEPT !.pc = "fetch", !.probed = TRUE,
                                !.node = pickFastestNode(NODES, results)])
  /\ UNCHANGED <<cache, lastStore, env>>
  /\ UNCHANGED exceptApp

\* handle(): rewriteHtml(text, base) + injectionScript(), encoded; the pages
\* here hold no reference, so that rewriteHtml leaves their length as it is
Rewritten(body) == Body(TRUE, body.bytes + InjectLen, body.rewrites + 1)

\* handle(): the body that is returned and stored
Processed(up) == IF up.body.html THEN Rewritten(up.body) ELSE up.body

\* handle(), from `await proxyFetch(req, target, node)` to its return. The
\* inbound body read and the outbound fetch may reject (network error, abort
\* after FETCH_TIMEOUT), as may the read of the response body and cache.put;
\* whatever is thrown ends in the catch.
Forward(r) ==
  /\ sent = NoExchange
  /\ req[r].pc = "fetch"
  /\ \/ /\ req[r].method \notin {"GET", "HEAD"}
        /\ Settle(r, Return(req[r], ErrorResponse("TypeError: body stream")))
        /\ UNCHANGED <<cache, lastStore>>
     \/ /\ \E err \in {"TypeError: fetch failed", "AbortError: The operation was aborted"} :
             Settle(r, Return([req[r] EXCEPT !.forwarded = TRUE], ErrorResponse(err)))
        /\ UNCHANGED <<cache, lastStore>>
     \/ /\ Settle(r, Return([req[r] EXCEPT !.forwarded = TRUE],
                              ErrorResponse("TypeError: body read")))
        /\ UNCHANGED <<cache, lastStore>>
     \/ \E u \in Upstreams, putOk \in BOOLEAN :
          LET rq == [req[r] EXCEPT !.forwarded = TRUE, !.up = u]
              body == Processed(u)
              key == cacheKey(rq.target, rq.method)
          IN  IF StoreEligible(rq.method, body.bytes)
              THEN IF putOk
                   THEN /\ cache' = [cache EXCEPT ![key] =
                                       [status |-> u.status, body |-> body, age |-> 0]]
                        /\ lastStore' = [lastStore EXCEPT ![rq.target] = 0]
                        /\ Settle(r, Return([rq EXCEPT !.putTried = TRUE],
                                            Response(u.status, "MISS", body, "")))
                   ELSE /\ Settle(r, Return([rq EXCEPT !.putTried = TRUE, !.putFailed = TRUE],
                                            ErrorResponse("Error: cache put")))
                        /\ UNCHANGED <<cache, lastStore>>
              ELSE /\ Settle(r, Return(rq, Response(u.status, "MISS", body, "")))
                   /\ UNCHANGED <<cache, lastStore>>
  /\ UNCHANGED env
  /\ UNCHANGED exceptApp

\* an entry TickStep seconds later; caches.default drops it when its max-age is over
Aged(e) ==
  IF e = NoEntry THEN NoEntry
  ELSE IF EntryFresh([e EXCEPT !.age = @ + TickStep]) THEN [e EXCEPT !.age = @ + TickStep]
  ELSE NoEntry

\* time passes
Tick ==
  /\ sent = NoExchange
  /\ \E k \in CacheKeys : cache[k] # NoEntry
  /\ cache' = [k \in CacheKeys |-> Aged(cache[k])]
  /\ lastStore' = [t \in Targets |->
                     IF lastStore[t] >= 0 /\ lastStore[t] + TickStep < CACHE_TTL
                     THEN lastStore[t] + TickStep ELSE -1]
  /\ UNCHANGED <<req, sent, env>>
  /\ UNCHANGED exceptApp

---------------------------------------------------------------------------
(* The node pickers: src/app.js pickFastestNode, src/worker.js             *)
(* chooseUpstreamProxy (two variants), src/unnamed/part_000                *)
(* pickFastestNode, src/unnamed/part_002 getBestNode                       *)

IsDigit(c) == c \in {"0", "1", "2", "3", "4", "5", "6", "7", "8", "9"}

\* the index after the run of digits that starts at i
RECURSIVE SkipDigits(_, _)
SkipDigits(s, i) ==
  IF i <= Len(s) /\ IsDigit(CharAt(s, i)) THEN SkipDigits(s, i + 1) ELSE i

\* the regular expression /:\d+$/
EndsWithPort(s) ==
  \E i \in 1..Len(s) :
    CharAt(s, i) = ":" /\ i < Len(s) /\ SkipDigits(s, i + 1) = Len(s) + 1

\* the regular expression /^([^:]+):(\d+)$/
IsHostPort(s) ==
  \E i \in 2..Len(s) :
    /\ CharAt(s, i) = ":" /\ i < Len(s) /\ SkipDigits(s, i + 1) = Len(s) + 1
    /\ \A j \in 1..(i - 1) : CharAt(s, j) # ":"

\* the regular expression /^[0-9]+\.[0-9]+\.[0-9]+\.[0-9]+/
RECURSIVE DottedRuns(_, _, _)
DottedRuns(s, i, n) ==
  LET j == SkipDigits(s, i)
  IN  /\ j > i
      /\ \/ n = 1
         \/ j <= Len(s) /\ CharAt(s, j) = "." /\ DottedRuns(s, j + 1, n - 1)

StartsWithIp(s) == DottedRuns(s, 1, 4)

\* Array.prototype.slice(0, n)
Slice(seq, n) == SubSeq(seq, 1, IF Len(seq) < n THEN Len(seq) ELSE n)

\* a comparator that puts the later of two equal times first
CompareDt_LaterFirst(a, b) == IF a.dt = b.dt THEN -1 ELSE a.dt - b.dt

CompareDt_Reversed(a, b) == IF a.dt = Infinity /\ b.dt = Infinity THEN 0 ELSE b.dt - a.dt

\* the comparator (a, b) => a.dt - b.dt; Infinity - Infinity is NaN, which
\* Array.prototype.sort takes as +0
CompareDt(a, b) == IF a.dt = Infinity /\ b.dt = Infinity THEN 0 ELSE a.dt - b.dt

\* Array.prototype.sort, which is stable: x goes behind the elements it does
\* not precede
RECURSIVE InsertSorted(_, _)
InsertSorted(sorted, x) ==
  IF Len(sorted) = 0 THEN <<x>>
  ELSE IF CompareDt(x, Head(sorted)) < 0 THEN <<x>> \o sorted
  ELSE <<Head(sorted)>> \o InsertSorted(Tail(sorted), x)

RECURSIVE SortByDt(_)
SortByDt(seq) ==
  IF Len(seq) = 0 THEN << >>
  ELSE InsertSorted(SortByDt(SubSeq(seq, 1, Len(seq) - 1)), seq[Len(seq)])

PickVariants == {"app", "worker1", "worker2", "part000", "part002"}

\* how many candidates a picker probes (none in app.js: all of them)
SampleSize(variant) ==
  CASE variant = "worker1" -> 12
    [] variant = "worker2" -> 12
    [] variant = "part000" -> 10
    [] variant = "part002" -> 10
    [] OTHER -> 1000

\* src/worker.js chooseUpstreamProxy: nodes.filter(...), first variant
IsProxyV1(n) == BeginsWithScheme(n)

\* src/worker.js chooseUpstreamProxy: nodes.filter(...), second variant
IsProxyV2(n) == BeginsWithScheme(n) \/ EndsWithPort(n)

\* src/unnamed/part_002 getBestNode: file.split("\n")...filter(...)
IsNodeLine(x) ==
  x # "" /\ (StartsWith(x, "http://") \/ StartsWith(x, "https://") \/ StartsWithIp(x))

\* a normalisation that puts the scheme in front of every string
NormalizeProxy_AlwaysPrefix(p) == "http://" \o p

\* src/worker.js chooseUpstreamProxy, second variant: proxies.map(p => ...)
NormalizeProxy(p) ==
  IF BeginsWithScheme(p) THEN p
  ELSE IF IsHostPort(p) THEN "http://" \o p
  ELSE p

RECURSIVE MapNormalize(_)
MapNormalize(seq) ==
  IF Len(seq) = 0 THEN << >>
  ELSE <<NormalizeProxy(Head(seq))>> \o MapNormalize(Tail(seq))

\* the candidate list of a picker: filtered, normalized
Candidates(variant, nodes) ==
  CASE variant = "worker1" -> SelectSeq(nodes, IsProxyV1)
    [] variant = "worker2" -> MapNormalize(SelectSeq(nodes, IsProxyV2))
    [] variant = "part002" -> SelectSeq(nodes, IsNodeLine)
    [] OTHER -> nodes

\* the candidates that are probed
Sample(variant, nodes) == Slice(Candidates(variant, nodes), SampleSize(variant))

\* a probe that has not settled
Pending == -1

\* what a picker returns for no node
NoPick(variant) == IF variant = "part002" THEN "" ELSE NoNode

\* the probes that answered, in the order of the candidates: {p, dt}
RECURSIVE Answered(_, _, _)
Answered(sample, results, i) ==
  IF i > Len(sample) THEN << >>
  ELSE IF results[i] # Infinity
       THEN <<[p |-> sample[i], dt |-> results[i]]>> \o Answered(sample, results, i + 1)
       ELSE Answered(sample, results, i + 1)

\* every probe, in the order of the candidates: {n, dt}
AllProbes(sample, results) == [i \in 1..Len(sample) |-> [p |-> sample[i], dt |-> results[i]]]

chooseUpstreamProxy_NoFallback(cands, sample, results) ==
  LET res == Answered(sample, results, 1)
  IN  IF Len(res) = 0 THEN NoNode ELSE SortByDt(res)[1].p

\* src/worker.js chooseUpstreamProxy, after Promise.all(tests)
chooseUpstreamProxy(cands, sample, results) ==
  LET res == Answered(sample, results, 1)
  IN  IF Len(res) = 0 THEN cands[1] ELSE SortByDt(res)[1].p

\* src/unnamed/part_000 pickFastestNode, after Promise.all(tests)
pickFastestNode000(sample, results) ==
  LET res == SortByDt(AllProbes(sample, results))
  IN  IF Len(res) > 0 /\ res[1].p # "" THEN res[1].p ELSE NoNode

\* src/unnamed/part_002 getBestNode: bestPing = 999999
BestPingStart == 999999

\* src/unnamed/part_002 getBestNode, the loop over the sample
RECURSIVE BestPing(_, _, _, _, _)
BestPing(sample, results, i, best, bestPing) ==
  IF i > Len(sample) THEN best
  ELSE IF results[i] # Infinity /\ results[i] < bestPing
       THEN BestPing(sample, results, i + 1, sample[i], results[i])
       ELSE BestPing(sample, results, i + 1, best, bestPing)

getBestNode(sample, results) == BestPing(sample, results, 1, "", BestPingStart)

\* what a picker returns once its probes have settled
Ranked(variant, cands, sample, results) ==
  CASE variant = "app" -> pickFastestNode(sample, results)
    [] variant = "part000" -> pickFastestNode000(sample, results)
    [] variant = "part002" -> getBestNode(sample, results)
    [] OTHER -> chooseUpstreamProxy(cands, sample, results)

\* inputs: the lines of a node list
NodeLines == {"http://p1:8080", "https://p2", "10.0.0.1:3128", "relay.example"}
MaxNodes == 3
NodeLists == UNION { [1..n -> NodeLines] : n \in 0..MaxNodes }

PickIdle == [pc |-> "idle", variant |-> "", nodes |-> << >>, cands |-> << >>,
             sample |-> << >>, results |-> << >>, result |-> NoNode]

\* a picker is called: it filters its list and, unless nothing is left, starts
\* its probes (part_002 probes one candidate after the other)
PickStart ==
  /\ pk.pc = "idle"
  /\ \E variant \in PickVariants, nodes \in NodeLists :
       LET cands == Candidates(variant, nodes)
           sample == Sample(variant, nodes)
       IN  IF Len(cands) = 0 /\ variant # "part002"
           THEN pk' = [PickIdle EXCEPT !.pc = "done", !.variant = variant, !.nodes = nodes,
                                       !.result = NoPick(variant)]
           ELSE pk' = [pc |-> "probing", variant |-> variant, nodes |-> nodes,
                       cands |-> cands, sample |-> sample,
                       results |-> [i \in 1..Len(sample) |-> Pending], result |-> NoNode]
  /\ UNCHANGED exceptPick

\* the probes a picker is waiting for: all that are pending, but in part_002
\* the first pending one only
Awaited ==
  LET pending == {i \in 1..Len(pk.sample) : pk.results[i] = Pending}
  IN  IF pk.variant = "part002"
      THEN {i \in pending : \A j \in pending : i <= j}
      ELSE pending

\* a probe settles: the HEAD request answered after dt ms, or it failed or was
\* aborted at the timeout
ProbeSettle ==
  /\ pk.pc = "probing"
  /\ \E i \in Awaited, dt \in BenchOutcomes :
       pk' = [pk EXCEPT !.results[i] = dt]
  /\ UNCHANGED exceptPick

\* every probe has settled: the picker ranks and returns
PickReturn ==
  /\ pk.pc = "probing"
  /\ \A i \in 1..Len(pk.sample) : pk.results[i] # Pending
  /\ pk' = [pk EXCEPT !.pc = "done",
                      !.result = Ranked(pk.variant, pk.cands, pk.sample, pk.results)]
  /\ UNCHANGED exceptPick

\* the caller has the result; the picker is called again
PickAgain ==
  /\ pk.pc = "done"
  /\ pk' = PickIdle
  /\ UNCHANGED exceptPick

---------------------------------------------------------------------------
(* The fetch handlers of src/worker.js (first and second variant) and      *)
(* src/unnamed/part_002, with the failures their steps raise               *)

PipeVariants == {"worker1", "worker2", "part002"}

\* the routes a handler has (part_002 has no admin endpoints)
PipeRoutes(variant) ==
  IF variant = "part002" THEN {"proxy"} ELSE {"refresh", "status", "proxy"}

PipeMethods == {"GET", "POST"}

\* inputs: the url parameter as URLSearchParams.get returns it
PipeParams == {"example.com", "%"}

\* the errors the runtime raises
ErrFetch == "TypeError: fetch failed"
ErrAbort == "AbortError: The operation was aborted"
ErrBody == "TypeError: Body has already been used"
ErrUri == "URIError: URI malformed"

\* inputs: what the forward fetch resolves to
PipeUpstreams == [status : {200, 404, 502}, html : BOOLEAN]

PipeIdle == [pc |-> "idle", variant |-> "", route |-> "", method |-> "",
             raised |-> "", outcome |-> "none", status |-> 0, text |-> "",
             up |-> [status |-> 0, html |-> FALSE]]

\* whether a step of a handler runs inside the handler's try block
InTry(variant, step) ==
  CASE variant = "worker1" -> step \notin {"refresh", "status"}
    [] variant = "worker2" -> TRUE
    [] variant = "part002" -> step # "decode"

\* the catch clause of a handler
CatchResponse(variant, err) ==
  CASE variant = "worker1" -> [status |-> 502, text |-> "Proxy Error: " \o err]
    [] variant = "worker2" -> [status |-> 502, text |-> "bepichon error: " \o err]
    [] variant = "part002" -> [status |-> 500, text |-> "Proxy Error:\n" \o err]

\* a handler returns a response
PipeRespond(p, status, text) ==
  [p EXCEPT !.pc = "done", !.outcome = "response", !.status = status, !.text = text]

\* a step raises err: the catch clause answers if the step is inside the try
\* block, otherwise the handler's promise rejects
Throw(p, step, err) ==
  IF InTry(p.variant, step)
  THEN LET c == CatchResponse(p.variant, err)
       IN  [PipeRespond(p, c.status, c.text) EXCEPT !.raised = err]
  ELSE [p EXCEPT !.pc = "done", !.outcome = "uncaught", !.raised = err]

\* fetch(request): the route is taken; part_002 decodes the url parameter a
\* second time before its try block
PipeReceive ==
  /\ pl.pc = "idle"
  /\ \E variant \in PipeVariants, method \in PipeMethods, param \in PipeParams :
     \E route \in PipeRoutes(variant) :
       LET p == [PipeIdle EXCEPT !.variant = variant, !.route = route, !.method = method]
       IN  /\ (variant # "part002" => param = "example.com")
           /\ pl' = IF route = "refresh" THEN [p EXCEPT !.pc = "refresh"]
                    ELSE IF variant = "part002" /\ ~decodeURIComponent(param).ok
                         THEN Throw(p, "decode", ErrUri)
                    ELSE [p EXCEPT !.pc = "load"]
  /\ UNCHANGED exceptPipe

\* /_admin/refresh: refreshDnsList catches what its fetch raises and returns
\* false
PipeRefresh ==
  /\ pl.pc = "refresh"
  /\ \E ok \in BOOLEAN :
       pl' = PipeRespond(pl, 200, IF ok THEN "{\"ok\":true}" ELSE "{\"ok\":false}")
  /\ UNCHANGED exceptPipe

\* loadDnsList (getBestNode in part_002) fetches the node list; the fetch is
\* not inside a try block of its own
PipeLoad ==
  /\ pl.pc = "load"
  /\ \/ pl' = IF pl.route = "status"
              THEN PipeRespond(pl, 200, "{\"count\":0,\"sample\":[]}")
              ELSE [pl EXCEPT !.pc = "probe"]
     \/ pl' = Throw(pl, pl.route, ErrFetch)
  /\ UNCHANGED exceptPipe

\* the picker probes; a probe that fails is caught where it is made
PipeProbe ==
  /\ pl.pc = "probe"
  /\ pl' = [pl EXCEPT !.pc = IF pl.method \in {"GET", "HEAD"} THEN "forward" ELSE "body"]
  /\ UNCHANGED exceptPipe

\* request.arrayBuffer() for a method other than GET and HEAD
PipeBody ==
  /\ pl.pc = "body"
  /\ \/ pl' = [pl EXCEPT !.pc = "forward"]
     \/ pl' = Throw(pl, "body", ErrBody)
  /\ UNCHANGED exceptPipe

\* the forward fetch: it resolves, fails, or (worker.js, fetchWithTimeout) is
\* aborted
PipeForward ==
  /\ pl.pc = "forward"
  /\ \/ \E u \in PipeUpstreams : pl' = [pl EXCEPT !.pc = "read", !.up = u]
     \/ pl' = Throw(pl, "forward", ErrFetch)
     \/ pl.variant # "part002" /\ pl' = Throw(pl, "forward", ErrAbort)
  /\ UNCHANGED exceptPipe

\* resp.text() and the rewrite, or resp.arrayBuffer(); then the response
PipeRead ==
  /\ pl.pc = "read"
  /\ \/ pl' = PipeRespond(pl, pl.up.status, IF pl.up.html THEN "<html>" ELSE "")
     \/ pl' = Throw(pl, "read", ErrFetch)
  /\ UNCHANGED exceptPipe

\* the request has ended; the next one arrives
PipeAgain ==
  /\ pl.pc = "done"
  /\ pl' = PipeIdle
  /\ UNCHANGED exceptPipe

---------------------------------------------------------------------------
(* The outbound request: forwarded URL and forwarded headers               *)

OutVariants == {"app", "worker1", "worker2", "part002"}

\* inputs: the url parameter as URLSearchParams.get returns it
OutParams == {"example.com", "http://example.com", "https://b.org/x", "httpbin.org",
              "HTTP://A.IO", " http://a.io", "%"}

\* inputs: header lines of the inbound request, no name twice
HeaderPool == { <<"Host", "w.dev">>, <<"connection", "keep-alive">>,
                <<"Content-Length", "12">>, <<"Upgrade-Insecure-Requests", "1">>,
                <<"User-Agent", "curl/8">>, <<"accept", "*/*">>,
                <<"Via", "1.1 squid">>, <<"X-Node", "n9">> }

\* new Headers(init): names are kept in lower case
NewHeaders(raw) ==
  LET low == {<<ToLower(l[1]), l[2]>> : l \in raw}
  IN  [n \in {l[1] : l \in low} |-> (CHOOSE l \in low : l[1] = n)[2]]

\* Headers.prototype.set
HeadersSet(h, k, v) ==
  LET lk == ToLower(k)
  IN  [n \in DOMAIN h \cup {lk} |-> IF n = lk THEN v ELSE h[n]]

\* h.forEach((v, k) => { if (!removed.includes(k.toLowerCase())) out.set(k, v) })
CopyExcept(h, removed) ==
  [n \in {k \in DOMAIN h : ToLower(k) \notin removed} |-> h[n]]

RemovedHeaders == {"host", "connection", "content-length", "upgrade-insecure-requests"}

DefaultUserAgent == "bepichon/1.0"

\* src/worker.js filterRequestHeaders (both variants)
filterRequestHeaders(inHeaders) ==
  LET out == CopyExcept(inHeaders, RemovedHeaders)
  IN  IF "user-agent" \in DOMAIN out THEN out
      ELSE HeadersSet(out, "user-agent", DefaultUserAgent)

\* src/app.js proxyFetch: the headers of the outbound request
proxyFetchHeaders(incoming, node) ==
  LET out == HeadersSet(CopyExcept(incoming, RemovedHeaders), "Via", "UltraProxy-v5")
  IN  IF node # NoNode THEN HeadersSet(out, "X-Node", node) ELSE out

\* src/unnamed/part_002 cleanHeaders
cleanHeaders(h) == CopyExcept(h, {"host", "content-length", "connection"})

\* the headers a handler forwards
OutHeaders(variant, h, node) ==
  CASE variant = "app" -> proxyFetchHeaders(h, node)
    [] variant = "part002" -> cleanHeaders(h)
    [] OTHER -> filterRequestHeaders(h)

\* target.startsWith("http") ? target : "http://" + target
FixedStartsWith(target) == IF StartsWith(target, "http") THEN target ELSE "http://" \o target

\* /^\s*https?:\/\//i.test(target) ? target.trim() : "http://" + target.trim()
FixedRegex(target) == IF HasHttpScheme(target) THEN Trim(target) ELSE "http://" \o Trim(target)

\* the URL a handler forwards for a target
Fixed(variant, target) ==
  CASE variant = "app" -> normalizeUrl(target)
    [] variant = "worker2" -> FixedRegex(target)
    [] OTHER -> FixedStartsWith(target)

\* app.js and part_002 pass the parameter through decodeURIComponent
Decodes(variant) == variant \in {"app", "part002"}

NoOutbound == [pc |-> "none", variant |-> "", param |-> "", node |-> NoNode,
               inbound |-> {}, target |-> "", fixed |-> "", headers |-> << >>]

Inbounds ==
  { [NoOutbound EXCEPT !.pc = "in", !.variant = v, !.param = u, !.node = n, !.inbound = hs] :
      v \in OutVariants, u \in OutParams, n \in {NoNode, NODES[1]}, hs \in SUBSET HeaderPool }

\* the handler builds the outbound request
BuildRequest ==
  /\ ob.pc = "in"
  /\ LET d == IF Decodes(ob.variant) THEN decodeURIComponent(ob.param)
              ELSE [ok |-> TRUE, val |-> ob.param]
     IN  /\ d.ok
         /\ ob' = [ob EXCEPT !.pc = "built", !.target = d.val,
                             !.fixed = Fixed(ob.variant, d.val),
                             !.headers = OutHeaders(ob.variant, NewHeaders(ob.inbound), ob.node)]
  /\ UNCHANGED exceptOut

\* decodeURIComponent raises URIError: no outbound request
BuildAbort ==
  /\ ob.pc = "in"
  /\ Decodes(ob.variant)
  /\ ~decodeURIComponent(ob.param).ok
  /\ ob' = [ob EXCEPT !.pc = "aborted"]
  /\ UNCHANGED exceptOut

---------------------------------------------------------------------------
(* The forward: the URL that is fetched, and the status, headers and body  *)
(* of the response, in src/app.js, src/worker.js (first variant),          *)
(* src/unnamed/part_000, part_001 and part_002                             *)

FwdVariants == {"app", "worker1", "part000", "part001", "part002"}

\* inputs: the mode parameter
Modes == {"rewrite", "api", "http"}

\* inputs: what the picker returned
FwdUpstreams == {NoNode, "http://p1:8080", "https://p2//", "http://gw/proxy/"}

\* inputs: the target, with its scheme
FwdTarget == "http://example.com"

\* inputs: headers of the target's response, no name twice
UpHeaderPool == { <<"Content-Security-Policy", "default-src 'self'">>,
                  <<"X-Frame-Options", "DENY">>, <<"Content-Encoding", "gzip">>,
                  <<"Connection", "close">>, <<"Keep-Alive", "timeout=5">>,
                  <<"ETag", "abc">> }

\* the content-type header of a response
ContentTypeOf(html) == IF html THEN "text/html" ELSE "image/png"

\* src/worker.js stripResponseHeaders (part_000, part_001: the same; part_002: strip)
StrippedHeaders == {"content-security-policy", "x-frame-options", "x-xss-protection",
                    "content-encoding", "transfer-encoding", "connection"}

stripResponseHeaders(h) == CopyExcept(h, StrippedHeaders)

\* src/app.js removeHopByHop
HopByHop == {"connection", "keep-alive", "proxy-authenticate", "proxy-authorization",
             "te", "trailers", "transfer-encoding", "upgrade"}

removeHopByHop(headers) == CopyExcept(headers, HopByHop)

\* src/app.js addViaHeader
addViaHeader(headers, node) ==
  LET h == HeadersSet(headers, "Via", "UltraProxy-v5")
  IN  IF node # NoNode THEN HeadersSet(h, "X-Node", node) ELSE h

\* a value that is truthy in JavaScript: neither null nor ""
Truthy(x) == x # NoNode /\ x # ""

\* the URL a handler fetches for the target `fixed`
FetchUrl(variant, mode, upstream, fixed) ==
  CASE variant = "worker1" ->
         IF Truthy(upstream)
            /\ (StartsWith(upstream, "http://") \/ StartsWith(upstream, "https://"))
            /\ mode = "http"
         THEN StripSlashes(upstream) \o "/" \o fixed
         ELSE fixed
    [] variant = "part000" ->
         IF Truthy(upstream) /\ mode = "http"
         THEN StripSlashes(upstream) \o "/" \o fixed
         ELSE fixed
    [] variant = "part001" ->
         LET tryUpstream == Truthy(upstream) /\ StartsWith(upstream, "http")
         IN  IF tryUpstream /\ mode = "http"
             THEN StripSlashes(upstream) \o "/" \o fixed
             ELSE IF tryUpstream /\ mode = "api" /\ Includes(upstream, "/proxy/")
             THEN upstream \o "?url=" \o encodeURIComponent(fixed)
             ELSE fixed
    [] variant = "part002" -> (IF upstream = NoNode THEN "" ELSE upstream) \o fixed
    [] OTHER -> fixed

\* whether a handler passes an HTML body through its rewriter
Rewrites(variant, mode, html) ==
  CASE variant = "app" -> html
    [] variant = "part002" -> html
    [] OTHER -> mode = "rewrite" /\ html

\* the via marker of a handler
ViaMarker(variant) == IF variant = "part000" THEN "bepichon" ELSE "bepichon-worker"

\* the headers of the response a handler builds from the target's response
FreshHeaders(variant, mode, upstream, h, html) ==
  IF variant = "app"
  THEN LET h1 == HeadersSet(addViaHeader(removeHopByHop(h), upstream),
                            "Access-Control-Allow-Origin", "*")
           h2 == IF html THEN HeadersSet(h1, "Content-Type", "text/html; charset=utf-8") ELSE h1
       IN  HeadersSet(h2, "X-Ultra-Proxy-Cache", "MISS")
  ELSE LET h1 == stripResponseHeaders(h)
           h2 == IF Rewrites(variant, mode, html)
                 THEN HeadersSet(h1, "content-type", "text/html; charset=utf-8") ELSE h1
           h3 == HeadersSet(HeadersSet(h2, "access-control-allow-origin", "*"),
                            "via", ViaMarker(variant))
       IN  IF variant = "part000"
           THEN HeadersSet(h3, "x-node", IF Truthy(upstream) THEN upstream ELSE "none")
           ELSE h3

\* src/app.js handle: the headers of the entry cache.put stored
CachedHeaders(html) ==
  LET cc == NewHeaders({<<"Cache-Control", "max-age=20">>})
  IN  IF html THEN HeadersSet(cc, "Content-Type", "text/html; charset=utf-8") ELSE cc

\* src/app.js handle: the headers of a response served from the cache
HitHeaders(html) ==
  addViaHeader(HeadersSet(HeadersSet(CachedHeaders(html), "Access-Control-Allow-Origin", "*"),
                          "X-Ultra-Proxy-Cache", "HIT"), NoNode)

\* the headers of the response a catch clause returns: new Response(text, {status})
ErrorHeaders(variant) ==
  NewHeaders({<<"Content-Type", IF variant = "part001" THEN "text/plain"
                                ELSE "text/plain;charset=UTF-8">>})

\* the status of the response a catch clause returns
ErrorStatus(variant) == IF variant = "part002" THEN 500 ELSE 502

NoForward == [pc |-> "none", variant |-> "", mode |-> "", upstream |-> NoNode,
              html |-> FALSE, upHeaders |-> {}, fetchUrl |-> "", kind |-> "",
              status |-> 0, headers |-> << >>, rewritten |-> FALSE]

Forwards ==
  { [NoForward EXCEPT !.pc = "in", !.variant = v, !.mode = m, !.upstream = u,
                      !.html = html, !.upHeaders = hs] :
      v \in FwdVariants, m \in Modes, u \in FwdUpstreams \cup {NODES[1]},
      html \in BOOLEAN, hs \in SUBSET UpHeaderPool }

\* app.js always has a node of NODES; the other handlers have what their picker
\* returned
ForwardInputs == { f \in Forwards : f.variant = "app" <=> f.upstream = NODES[1] }

\* a catch clause answers
FwdError(f) ==
  [f EXCEPT !.pc = "done", !.kind = "error", !.status = ErrorStatus(f.variant),
            !.headers = ErrorHeaders(f.variant)]

\* the handler builds the URL and fetches it; the fetch resolves or rejects
FwdFetch ==
  /\ fw.pc = "in"
  /\ \/ fw' = [fw EXCEPT !.pc = "fetched",
                         !.fetchUrl = FetchUrl(fw.variant, fw.mode, fw.upstream, FwdTarget)]
     \/ fw' = FwdError([fw EXCEPT !.fetchUrl =
                           FetchUrl(fw.variant, fw.mode, fw.upstream, FwdTarget)])
  /\ UNCHANGED exceptFwd

\* src/app.js handle: the entry is in the cache, no node is selected
FwdHit ==
  /\ fw.pc = "in"
  /\ fw.variant = "app"
  /\ fw' = [fw EXCEPT !.pc = "done", !.kind = "hit", !.upstream = NoNode, !.status = 200,
                      !.headers = HitHeaders(fw.html), !.rewritten = fw.html]
  /\ UNCHANGED exceptFwd

\* the handler builds its response from the target's; reading the body may
\* reject
FwdRespond ==
  /\ fw.pc = "fetched"
  /\ \/ LET h == NewHeaders(fw.upHeaders \cup {<<"Content-Type", ContentTypeOf(fw.html)>>})
        IN  fw' = [fw EXCEPT !.pc = "done", !.kind = "fresh", !.status = 200,
                     !.headers = FreshHeaders(fw.variant, fw.mode, fw.upstream, h, fw.html),
                     !.rewritten = Rewrites(fw.variant, fw.mode, fw.html)]
     \/ fw' = FwdError(fw)
  /\ UNCHANGED exceptFwd

---------------------------------------------------------------------------
(* The node list: loadDnsList and refreshDnsList of src/worker.js (first   *)
(* variant) and src/unnamed/part_000, loadDns and refreshDns of            *)
(* src/worker.js (third variant), over the KV namespace DNS_KV             *)

ListVariants == {"worker1", "worker3", "part000"}

\* the index of the first line feed of s at or after i, Len(s) + 1 if none
RECURSIVE LineEnd(_, _)
LineEnd(s, i) == IF i > Len(s) \/ CharAt(s, i) = "\n" THEN i ELSE LineEnd(s, i + 1)

\* String.prototype.split("\n")
RECURSIVE SplitLines(_)
SplitLines(s) ==
  LET e == LineEnd(s, 1)
  IN  IF e > Len(s) THEN <<s>>
      ELSE <<SubSeq(s, 1, e - 1)>> \o SplitLines(SubSeq(s, e + 1, Len(s)))

RECURSIVE MapTrim(_)
MapTrim(seq) == IF Len(seq) = 0 THEN << >> ELSE <<Trim(Head(seq))>> \o MapTrim(Tail(seq))

\* parseDnsText: l => l && !l.startsWith("#")
IsListLine(l) == l # "" /\ ~StartsWith(l, "#")

\* parseDnsText
parseDnsText(txt) == SelectSeq(MapTrim(SplitLines(txt)), IsListLine)

\* inputs: the body DNS_RAW_URL answers with status 200, and with status 404
ListBodies == {"http://p1:8080\n# spare\n 10.0.0.1:3128\n", "https://p2"}
NotFoundBody == "404: Not Found"

\* inputs: what fetch(DNS_RAW_URL) does
FetchOutcomes == {"ok", "notok", "neterr"}

ListIdle(hasKv, kv) ==
  [pc |-> "idle", variant |-> "", op |-> "", hasKv |-> hasKv, kv |-> kv, kvBefore |-> kv,
   getFailed |-> FALSE, fetched |-> "", txt |-> "", putFailed |-> FALSE, raised |-> FALSE,
   nodes |-> << >>, ok |-> FALSE]

\* load or refresh is called; refresh, and load without DNS_KV, go to the fetch
ListCall ==
  /\ dl.pc = "idle"
  /\ \E variant \in ListVariants, op \in {"load", "refresh"} :
       dl' = [dl EXCEPT !.variant = variant, !.op = op,
                        !.pc = IF op = "load" /\ dl.hasKv THEN "get" ELSE "fetch"]
  /\ UNCHANGED exceptList

\* a load that does not look into DNS_KV
ListGet_Skipped ==
  /\ dl.pc = "get"
  /\ dl' = [dl EXCEPT !.pc = "fetch"]
  /\ UNCHANGED exceptList

\* load: env.DNS_KV.get(DNS_CACHE_KEY); a cached text is parsed and returned, a
\* failure of the read is ignored
ListGet ==
  /\ dl.pc = "get"
  /\ \/ dl' = IF dl.kv # ""
              THEN [dl EXCEPT !.pc = "done", !.nodes = parseDnsText(dl.kv)]
              ELSE [dl EXCEPT !.pc = "fetch"]
     \/ dl' = [dl EXCEPT !.pc = "fetch", !.getFailed = TRUE]
  /\ UNCHANGED exceptList

\* whether the fetch of an operation is inside a try block
FetchInTry(variant, op) == op = "refresh" /\ variant # "worker3"

\* whether an operation returns at once when the answer is not OK:
\* if (!r.ok) return ...
ReturnsNotOk(variant, op) ==
  variant = "worker1" \/ (variant = "worker3" /\ op = "refresh")

\* the text an operation goes on with when the answer is not OK: loadDns of the
\* third variant takes "", part_000 reads the body
NotOkText(variant) == IF variant = "worker3" THEN "" ELSE NotFoundBody

\* fetch(DNS_RAW_URL) and r.text()
ListFetch ==
  /\ dl.pc = "fetch"
  /\ \E outcome \in FetchOutcomes, body \in ListBodies :
       LET d == [dl EXCEPT !.fetched = outcome]
       IN  dl' =
             CASE outcome = "neterr" ->
                    IF FetchInTry(d.variant, d.op)
                    THEN [d EXCEPT !.pc = "done", !.ok = FALSE]
                    ELSE [d EXCEPT !.pc = "done", !.raised = TRUE]
               [] outcome = "notok" /\ ReturnsNotOk(d.variant, d.op) ->
                    [d EXCEPT !.pc = "done", !.ok = FALSE, !.nodes = << >>]
               [] outcome = "notok" ->
                    [d EXCEPT !.pc = IF d.hasKv THEN "put" ELSE "done",
                              !.txt = NotOkText(d.variant), !.ok = TRUE,
                              !.nodes = parseDnsText(NotOkText(d.variant))]
               [] OTHER ->
                    [d EXCEPT !.pc = IF d.hasKv THEN "put" ELSE "done",
                              !.txt = body, !.ok = TRUE, !.nodes = parseDnsText(body)]
  /\ UNCHANGED exceptList

\* whether a failure of DNS_KV.put makes the operation return false
PutFailureFails(variant, op) == variant = "worker1" /\ op = "refresh"

\* env.DNS_KV.put(DNS_CACHE_KEY, txt, ...): the entry is overwritten, or the
\* write fails and the failure is caught
ListPut ==
  /\ dl.pc = "put"
  /\ \/ dl' = [dl EXCEPT !.pc = "done", !.kv = dl.txt]
     \/ dl' = [dl EXCEPT !.pc = "done", !.putFailed = TRUE,
                         !.ok = ~PutFailureFails(dl.variant, dl.op)]
  /\ UNCHANGED exceptList

\* the operation has returned; the next call finds what it left in DNS_KV
ListAgain ==
  /\ dl.pc = "done"
  /\ dl' = ListIdle(dl.hasKv, dl.kv)
  /\ UNCHANGED exceptList

\* expirationTtl: DNS_KV drops the entry when DNS_CACHE_TTL is over
ListExpire ==
  /\ dl.pc = "idle"
  /\ dl.kv # ""
  /\ dl' = ListIdle(dl.hasKv, "")
  /\ UNCHANGED exceptList

---------------------------------------------------------------------------
(* The rewriter: rewriteHtml and absolutize of src/worker.js, rewriteHtml, *)
(* resourceToProxy and baseFor of src/app.js, rewrite and ab of            *)
(* src/unnamed/part_002, on one attribute href, src or action              *)

RwVariants == {"worker1", "app", "part002"}

\* the index of the first "/" of s at or after i, Len(s) + 1 if none
NextSlash(s, i) ==
  LET at == {j \in i..Len(s) : CharAt(s, j) = "/"}
  IN  IF at = {} THEN Len(s) + 1 ELSE CHOOSE j \in at : \A k \in at : j <= k

\* the index of the last "/" of s at or before i, 0 if none
LastSlash(s, i) ==
  LET at == {j \in 1..i : CharAt(s, j) = "/"}
  IN  IF at = {} THEN 0 ELSE CHOOSE j \in at : \A k \in at : j >= k

\* where the path of an http(s) URL starts: behind scheme, "://" and host
PathStart(u) == NextSlash(u, (IF StartsWith(u, "https") THEN 8 ELSE 7) + 1)

\* new URL(u).origin and .pathname, for the URLs of the inputs
UrlOrigin(u) == SubSeq(u, 1, PathStart(u) - 1)
UrlPathname(u) == IF PathStart(u) > Len(u) THEN "/" ELSE SubSeq(u, PathStart(u), Len(u))

\* pathname.replace(/\/[^\/]*$/, '')
DropLastSegment(path) ==
  IF LastSlash(path, Len(path)) = 0 THEN path
  ELSE SubSeq(path, 1, LastSlash(path, Len(path)) - 1)

\* src/app.js baseFor; the same expression in rewriteHtml of src/worker.js
baseFor(target) == UrlOrigin(target) \o DropLastSegment(UrlPathname(target))

\* base.replace(/\/$/, '')
StripSlash(base) ==
  IF Len(base) > 0 /\ CharAt(base, Len(base)) = "/" THEN SubSeq(base, 1, Len(base) - 1)
  ELSE base

\* absolutize without the branch for //host/path
absolutize_NoProtocolRelative(u, base) ==
  IF HasHttpScheme(u) THEN u
  ELSE IF StartsWith(TrimStart(u), "/") THEN StripSlash(base) \o u
  ELSE StripSlash(base) \o "/" \o u

\* src/worker.js absolutize (u is not empty: the pattern captures [^"']+)
absolutize(u, base) ==
  IF HasHttpScheme(u) THEN u
  ELSE IF StartsWith(TrimStart(u), "//") THEN "http:" \o u
  ELSE IF StartsWith(TrimStart(u), "/") THEN StripSlash(base) \o u
  ELSE StripSlash(base) \o "/" \o u

\* src/app.js resourceToProxy: what is handed to encodeURIComponent
resourceTarget(u, base) ==
  IF HasHttpScheme(u) THEN u
  ELSE IF StartsWith(TrimStart(u), "//") THEN "http:" \o u
  ELSE IF StartsWith(TrimStart(u), "/") THEN base \o u
  ELSE base \o "/" \o u

\* src/app.js resourceToProxy
resourceToProxy(u, base) == "?url=" \o encodeURIComponent(resourceTarget(u, base))

\* src/unnamed/part_002 ab
ab(u, base) ==
  IF StartsWith(u, "http") THEN u
  ELSE IF StartsWith(u, "//") THEN "http:" \o u
  ELSE IF StartsWith(u, "/") THEN base \o u
  ELSE base \o "/" \o u

\* the base a handler gives its rewriter: baseFor(target) in src/app.js, the
\* target in src/worker.js and part_002
RwGiven(variant, target) == IF variant = "app" THEN baseFor(target) ELSE target

\* the base a rewriter resolves against: rewriteHtml of src/worker.js takes
\* the directory of the base it is given, the others the base as it is
RwBase(variant, given) == IF variant = "worker1" THEN baseFor(given) ELSE given

\* what a rewriter resolves the reference u to
Resolve(variant, u, base) ==
  CASE variant = "worker1" -> absolutize(u, base)
    [] variant = "app" -> resourceTarget(u, base)
    [] variant = "part002" -> ab(u, base)

\* the value the attribute gets: (href|src|action)="?url=..."
AttrValue(variant, u, base) == "?url=" \o encodeURIComponent(Resolve(variant, u, base))

IsQuote(c) == c = "'" \/ c = "\""

\* u.replace(/^['"]|['"]$/g, '').trim()
StripQuotes(u) ==
  LET a == IF Len(u) > 0 /\ IsQuote(CharAt(u, 1)) THEN SubSeq(u, 2, Len(u)) ELSE u
      b == IF Len(a) > 0 /\ IsQuote(CharAt(a, Len(a))) THEN SubSeq(a, 1, Len(a) - 1) ELSE a
  IN  Trim(b)

\* u.replace(/['"]/g, "")
RECURSIVE DropQuotes(_)
DropQuotes(u) ==
  IF Len(u) = 0 THEN ""
  ELSE (IF IsQuote(CharAt(u, 1)) THEN "" ELSE CharAt(u, 1)) \o DropQuotes(SubSeq(u, 2, Len(u)))

\* the index of the first ")" of s at or after i, Len(s) + 1 if none
NextParen(s, i) ==
  LET at == {j \in i..Len(s) : CharAt(s, j) = ")"}
  IN  IF at = {} THEN Len(s) + 1 ELSE CHOOSE j \in at : \A k \in at : j <= k

\* where url(, one character or more that is not ")", and ")" stand in s
CssMatches(s) ==
  {i \in 1..Len(s) : /\ i + 5 <= Len(s)
                     /\ ToLower(SubSeq(s, i, i + 3)) = "url("
                     /\ NextParen(s, i + 4) > i + 4
                     /\ NextParen(s, i + 4) <= Len(s)}

\* the replacement of one url(...) of the text
CssValue(variant, inner, base) ==
  "url(" \o AttrValue(variant, IF variant = "part002" THEN DropQuotes(inner)
                               ELSE StripQuotes(inner), base) \o ")"

\* html.replace(/url\(([^)]+)\)/gi, ...), which runs over the whole text, the
\* attribute values rewritten before included
RECURSIVE CssPass(_, _, _)
CssPass(variant, s, base) ==
  IF CssMatches(s) = {} THEN s
  ELSE LET i == CHOOSE j \in CssMatches(s) : \A k \in CssMatches(s) : j <= k
           close == NextParen(s, i + 4)
       IN  SubSeq(s, 1, i - 1)
             \o CssValue(variant, SubSeq(s, i + 4, close - 1), base)
             \o CssPass(variant, SubSeq(s, close + 1, Len(s)), base)

\* inputs: the target of the page
RwTargets == {"http://example.com/dir", "http://example.com/dir/page.html",
              "https://example.com"}

\* inputs: the reference in the attribute
RwRefs == {"/root.css", "pic.png", "//cdn.example.com/a.js", "http://x.com/a",
           "https://x.com/a?b=c#d", "HTTP://X.COM/a", "img/url(1).png"}

NoRewrite == [pc |-> "none", variant |-> "", target |-> "", ref |-> "", given |-> "", base |-> "",
              resolved |-> "", value |-> "", final |-> ""]

Rewrites0 ==
  { [NoRewrite EXCEPT !.pc = "in", !.variant = v, !.target = t, !.ref = u] :
      v \in RwVariants, t \in RwTargets, u \in RwRefs }

\* the pass over href, src and action
RwAttr ==
  /\ rw.pc = "in"
  /\ LET given == RwGiven(rw.variant, rw.target)
         base == RwBase(rw.variant, given)
     IN  rw' = [rw EXCEPT !.pc = "attr", !.given = given, !.base = base,
                          !.resolved = Resolve(rw.variant, rw.ref, base),
                          !.value = AttrValue(rw.variant, rw.ref, base)]
  /\ UNCHANGED exceptRw

\* the pass over url(...)
RwCss ==
  /\ rw.pc = "attr"
  /\ rw' = [rw EXCEPT !.pc = "done", !.final = CssPass(rw.variant, rw.value, rw.base)]
  /\ UNCHANGED exceptRw

---------------------------------------------------------------------------
(* The relay: WSProxy.fetch of src/WSProxy.js, src/app.js and             *)
(* src/dashboard.js, and the /wsproxy branch of src/worker.js (first      *)
(* variant)                                                                *)

RelayVariants == {"WSProxy", "app", "dashboard", "worker1"}

MaxSessions == 2
MaxEvents == 2

RelaySessions == 1..MaxSessions

RelayData == {"ping", "pong"}

\* the two sockets a session relays between
Ends(variant) == IF variant = "worker1" THEN {"server", "remote"} ELSE {"client", "server"}

\* the socket the messages of e are sent on
Peer(variant, e) == CHOOSE d \in Ends(variant) : d # e

\* listeners that send with neither the test nor the try block
Pumps_Bare(variant) == << [guard |-> FALSE, try |-> FALSE] >>

\* the message listeners on each socket of a session, in the order they are
\* added: guard is the test readyState === 1 before the send, try the try
\* block around it
Pumps(variant) ==
  CASE variant = "WSProxy" -> << [guard |-> TRUE, try |-> TRUE] >>
    [] variant = "app" -> << [guard |-> TRUE, try |-> FALSE], [guard |-> FALSE, try |-> TRUE] >>
    [] variant = "dashboard" -> << [guard |-> FALSE, try |-> TRUE] >>
    [] variant = "worker1" -> << [guard |-> FALSE, try |-> TRUE] >>

\* the sockets whose close event runs cleanup
CleanupOn_ClientOnly(variant) == {"client"}

CleanupOn(variant) == Ends(variant)

\* what one listener does with a message when the socket it sends on is in
\* state dest; throws: send on a socket that is not open raises
PumpSends_Never(pump, dest) == FALSE

PumpSends(pump, dest) == dest = "open"

PumpRaises(pump, dest, throws) == dest # "open" /\ ~pump.guard /\ throws /\ ~pump.try

NoSession == [up |-> FALSE, state |-> << >>, out |-> << >>]

NoEvent == [session |-> 0, on |-> "", data |-> "", self |-> "", peer |-> "", sends |-> 0,
            raised |-> FALSE]

NoRelay == [variant |-> "", sockets |-> {}, sess |-> << >>, events |-> 0, last |-> NoEvent]

Relays0 ==
  { [NoRelay EXCEPT !.variant = v, !.sess = [s \in RelaySessions |-> NoSession]] :
      v \in RelayVariants }

\* how many of the listeners send the message
RECURSIVE CountSends(_, _)
CountSends(pumps, dest) ==
  IF pumps = << >> THEN 0
  ELSE (IF PumpSends(Head(pumps), dest) THEN 1 ELSE 0) + CountSends(Tail(pumps), dest)

RECURSIVE Repeat(_, _)
Repeat(m, n) == IF n = 0 THEN << >> ELSE <<m>> \o Repeat(m, n - 1)

\* an upgrade request: a new pair of sockets, the client in the live set
RelayUpgrade(s) ==
  /\ rl.variant # ""
  /\ ~rl.sess[s].up
  /\ \A t \in RelaySessions : t < s => rl.sess[t].up
  /\ rl' = [rl EXCEPT
       !.sess[s] = [up |-> TRUE,
                    state |-> [e \in Ends(rl.variant) |-> "open"],
                    out |-> [e \in Ends(rl.variant) |-> << >>]],
       !.sockets = IF rl.variant = "worker1" THEN @ ELSE @ \cup {s},
       !.last = NoEvent]
  /\ UNCHANGED exceptRelay

\* a message event on socket e of session s: every listener of e runs
RelayMessage(s, e, data, throws) ==
  /\ rl.variant # ""
  /\ rl.sess[s].up
  /\ e \in Ends(rl.variant)
  /\ rl.sess[s].state[e] # "closed"
  /\ rl.events < MaxEvents
  /\ LET d == Peer(rl.variant, e)
         dest == rl.sess[s].state[d]
         pumps == Pumps(rl.variant)
         n == CountSends(pumps, dest)
     IN  rl' = [rl EXCEPT
           !.sess[s].out[d] = @ \o Repeat(data, n),
           !.events = @ + 1,
           !.last = [session |-> s, on |-> e, data |-> data, self |-> rl.sess[s].state[e],
                     peer |-> dest, sends |-> n,
                     raised |-> \E i \in 1..Len(pumps) : PumpRaises(pumps[i], dest, throws)]]
  /\ UNCHANGED exceptRelay

\* close() on socket e, or the close frame of its peer: readyState CLOSING
RelayClosing(s, e) ==
  /\ rl.variant # ""
  /\ rl.sess[s].up
  /\ e \in Ends(rl.variant)
  /\ rl.sess[s].state[e] = "open"
  /\ rl' = [rl EXCEPT !.sess[s].state[e] = "closing", !.last = NoEvent]
  /\ UNCHANGED exceptRelay

\* the close event on socket e: cleanup runs; in src/worker.js it closes
\* both sockets, in the others it takes the client out of the live set
RelayClose(s, e) ==
  /\ rl.variant # ""
  /\ rl.sess[s].up
  /\ e \in Ends(rl.variant)
  /\ rl.sess[s].state[e] # "closed"
  /\ LET cleans == e \in CleanupOn(rl.variant)
         d == Peer(rl.variant, e)
     IN  rl' = [rl EXCEPT
           !.sess[s].state =
              [@ EXCEPT ![e] = "closed",
                        ![d] = IF rl.variant = "worker1" /\ cleans /\ @ = "open"
                               THEN "closing" ELSE @],
           !.sockets = IF rl.variant # "worker1" /\ cleans THEN @ \ {s} ELSE @,
           !.last = NoEvent]
  /\ UNCHANGED exceptRelay

---------------------------------------------------------------------------
(* The tunnel: handleTunnel of src/worker.js (second and third variant)    *)
(* and of src/unnamed/part_000                                             *)

TunnelVariants == {"worker2", "worker3", "part000"}

MaxMessages == 3

\* ev.data: binary data; a string that is not JSON; the JSON text null; an
\* object whose cmd is not fetch; a fetch command without url; a fetch command
TunnelData == {"binary", "notjson", "null", "other", "fetchNoUrl", "fetch"}

\* what becomes of the outbound request of a fetch command: answered, the
\* fetch rejected, aborted by the timer of fetchWithTimeout, or the body
\* could not be read
TunnelOutcomes == {"ok", "failed", "timeout", "bodyFailed"}

\* typeof ev.data === "string" ? JSON.parse(ev.data) : null, and JSON.parse(ev.data)
\* in part_000: "throw" when JSON.parse raises
Parsed(variant, data) ==
  CASE data = "binary" -> IF variant = "part000" THEN "throw" ELSE "null"
    [] data = "notjson" -> "throw"
    [] OTHER -> data

\* what the listener does with a message before any await: "" when it
\* returns or its catch swallows an exception without a reply, "await" when
\* it starts the outbound fetch, else the type of the reply it sends
OnMessage(variant, data) ==
  LET msg == Parsed(variant, data)
  IN  CASE msg = "throw" -> ""
        [] msg = "null" -> ""
        [] msg = "fetch" -> "await"
        [] OTHER -> IF variant = "part000" THEN "" ELSE "unknown"

\* the reply the inner catch sends when the outbound request fails
OnFetchFailure_Swallowed(variant) == ""

OnFetchFailure(variant) == "error"

\* the reply for a fetch command whose outbound request has settled
OnSettled(variant, outcome) == IF outcome = "ok" THEN "response" ELSE OnFetchFailure(variant)

NoTunnel == [variant |-> "", open |-> FALSE, closedBy |-> "", msgs |-> << >>]

Tunnels0 == { [NoTunnel EXCEPT !.variant = v, !.open = TRUE] : v \in TunnelVariants }

\* a failed fetch command has been answered
FailureAnswered ==
  \E i \in 1..Len(tn.msgs) :
    tn.msgs[i].outcome \in {"failed", "timeout", "bodyFailed"} /\ tn.msgs[i].reply # ""

\* server.send(reply): nothing is sent on a closed socket, and the exception
\* ends in the outer catch
Sent(reply) == IF tn.open THEN reply ELSE ""

\* a message event on the server socket
TunnelMessage(data) ==
  /\ tn.variant # ""
  /\ tn.open
  /\ Len(tn.msgs) < MaxMessages
  /\ LET act == OnMessage(tn.variant, data)
     IN  tn' = [tn EXCEPT !.msgs = Append(@,
                  [data |-> data,
                   pending |-> act = "await",
                   outcome |-> "",
                   open |-> TRUE,
                   reply |-> IF act = "await" THEN "" ELSE act,
                   afterFailure |-> FailureAnswered])]
  /\ UNCHANGED exceptTunnel

\* the outbound fetch of a fetch command settles
TunnelSettle(i, outcome) ==
  /\ tn.variant # ""
  /\ i \in 1..Len(tn.msgs)
  /\ tn.msgs[i].pending
  /\ tn' = [tn EXCEPT !.msgs[i] =
              [@ EXCEPT !.pending = FALSE, !.outcome = outcome, !.open = tn.open,
                        !.reply = Sent(OnSettled(tn.variant, outcome))]]
  /\ UNCHANGED exceptTunnel

\* the client closes the socket
TunnelClose ==
  /\ tn.variant # ""
  /\ tn.open
  /\ tn' = [tn EXCEPT !.open = FALSE, !.closedBy = "client"]
  /\ UNCHANGED exceptTunnel

---------------------------------------------------------------------------
(* The external calls a request handler awaits: src/worker.js (first       *)
(* variant), src/app.js and src/unnamed/part_002                           *)

CallVariants == {"worker1", "app", "part002"}

\* the calls of one request, in the order they are awaited. list: the fetch of
\* the node list, listBody: reading its text; probe: the HEAD request to a
\* node (two nodes); upload: reading the body of the client's request;
\* forward: the fetch of the target; body: reading the response of the target
Plan(variant, hasList, method) ==
  LET list == CASE variant = "worker1" -> IF hasList THEN << >> ELSE <<"list", "listBody">>
                [] variant = "part002" -> <<"list", "listBody">>
                [] variant = "app" -> << >>
      upload == IF method \in {"GET", "HEAD"} THEN << >> ELSE <<"upload">>
  IN  list \o <<"probe", "probe">> \o upload \o <<"forward", "body">>

\* whether a timer that aborts the call runs while the call is awaited.
\* fetchWithTimeout and benchNode arm one for the fetch and clear it when the
\* fetch settles, before the body is read; part_002 passes cf: {timeout: 2000}
\* to its probes, which aborts only if the runtime honours it
HasTimeout(variant, kind, cfHonoured) ==
  CASE kind = "probe" -> IF variant = "part002" THEN cfHonoured ELSE TRUE
    [] kind = "forward" -> variant # "part002"
    [] OTHER -> FALSE

\* a failed probe is skipped; any other failed call ends the request, in a
\* catch clause or by rejecting the handler
FailureEnds(kind) == kind # "probe"

\* an outbound request that carries a body whatever the method
AttachesBody_Always(method) == TRUE

\* whether the outbound request is given a body:
\* request.method !== "GET" && request.method !== "HEAD"
AttachesBody(method) == method \notin {"GET", "HEAD"}

\* reads: how often the body of the client's request has been read; issued,
\* outBody: the outbound request has been sent, and with a body
NoCalls == [variant |-> "", cfHonoured |-> FALSE, plan |-> << >>, at |-> 0, pc |-> "none",
            armed |-> FALSE, log |-> << >>, status |-> "",
            method |-> "", reads |-> 0, issued |-> FALSE, outBody |-> FALSE]

Calls0 ==
  { [NoCalls EXCEPT !.variant = v, !.cfHonoured = c, !.plan = Plan(v, k, m), !.pc = "run",
                    !.method = m] :
      v \in CallVariants, c \in BOOLEAN, k \in BOOLEAN, m \in {"GET", "HEAD", "POST"} }

\* the handler comes to its next await
CallStart ==
  /\ xc.pc = "run"
  /\ xc.at < Len(xc.plan)
  /\ LET kind == xc.plan[xc.at + 1]
     IN  xc' = [xc EXCEPT !.at = @ + 1, !.pc = "await",
                          !.armed = HasTimeout(xc.variant, kind, xc.cfHonoured),
                          !.reads = IF kind = "upload" THEN @ + 1 ELSE @,
                          !.issued = @ \/ kind = "forward",
                          !.outBody = IF kind = "forward" THEN AttachesBody(xc.method) ELSE @]
  /\ UNCHANGED exceptCalls

\* the other side answers
CallAnswer ==
  /\ xc.pc = "await"
  /\ xc' = [xc EXCEPT !.pc = "run", !.armed = FALSE, !.log = Append(@, "answered")]
  /\ UNCHANGED exceptCalls

CallEnded(how) ==
  IF FailureEnds(xc.plan[xc.at])
  THEN [xc EXCEPT !.pc = "done", !.armed = FALSE, !.log = Append(@, how), !.status = "error"]
  ELSE [xc EXCEPT !.pc = "run", !.armed = FALSE, !.log = Append(@, how)]

\* the call fails: connection refused, reset
CallFail ==
  /\ xc.pc = "await"
  /\ xc' = CallEnded("failed")
  /\ UNCHANGED exceptCalls

\* the timer fires and aborts the call
CallTimeout ==
  /\ xc.pc = "await"
  /\ xc.armed
  /\ xc' = CallEnded("timeout")
  /\ UNCHANGED exceptCalls

\* the handler returns its response
CallsReturn ==
  /\ xc.pc = "run"
  /\ xc.at = Len(xc.plan)
  /\ xc' = [xc EXCEPT !.pc = "done", !.status = "ok"]
  /\ UNCHANGED exceptCalls

---------------------------------------------------------------------------
(* Node normalisation: normalizeUrl of src/app.js and the normalisations   *)
(* inside chooseUpstreamProxy of src/worker.js (second variant) and of     *)
(* src/unnamed/part_000                                                    *)

NormVariants == {"app", "worker2", "part000"}

\* src/unnamed/part_000 chooseUpstreamProxy: proxies.map(p => ...)
NormalizeProxyPart000(p) ==
  IF StartsWith(p, "http") THEN p ELSE "http://" \o p

\* the normalisation of each variant
Normalize(variant, s) ==
  CASE variant = "app" -> normalizeUrl(s)
    [] variant = "worker2" -> NormalizeProxy(s)
    [] variant = "part000" -> NormalizeProxyPart000(s)

\* candidate node strings: white space, a scheme or what looks like one, a
\* host with or without port, a tail
NormLeads == {"", " ", "\t"}
NormSchemes == {"", "http://", "https://", "HTTP://", "http", "http:/", "ftp://"}
NormHosts == {"", "a", "a:80", "a:b:80", "1.2.3.4:8080"}
NormTails == {"", " ", "/ "}
NormStrings ==
  {l \o c \o h \o t : l \in NormLeads, c \in NormSchemes, h \in NormHosts, t \in NormTails}

NoNorm == [pc |-> "", variant |-> "", given |-> "", once |-> "", twice |-> ""]

Norms0 ==
  {[NoNorm EXCEPT !.pc = "given", !.variant = v, !.given = s] :
     v \in NormVariants, s \in NormStrings}

\* the normalisation is applied to the given string
NormalizeOnce ==
  /\ nz.pc = "given"
  /\ nz' = [nz EXCEPT !.pc = "once", !.once = Normalize(nz.variant, nz.given)]
  /\ UNCHANGED exceptNorm

\* the normalisation is applied to its own result
NormalizeAgain ==
  /\ nz.pc = "once"
  /\ nz' = [nz EXCEPT !.pc = "twice", !.twice = Normalize(nz.variant, nz.once)]
  /\ UNCHANGED exceptNorm

---------------------------------------------------------------------------
(* Specifications                                                          *)

\* the state of src/app.js before any request
AppAtRest ==
  /\ cache = [k \in CacheKeys |-> NoEntry]
  /\ req = [r \in Slots |-> IdleReq]
  /\ sent = NoExchange
  /\ lastStore = [t \in Targets |-> -1]

InitApp ==
  /\ AppAtRest
  /\ env \in EnvChoices
  /\ pk = PickIdle
  /\ pl = PipeIdle
  /\ ob = NoOutbound
  /\ fw = NoForward
  /\ dl = ListIdle(FALSE, "")
  /\ rw = NoRewrite
  /\ rl = NoRelay
  /\ tn = NoTunnel
  /\ xc = NoCalls
  /\ nz = NoNorm

NextApp ==
  \/ \E r \in Slots : Receive(r)
  \/ \E r \in Slots : Pick(r)
  \/ \E r \in Slots : Forward(r)
  \/ Deliver
  \/ Tick

SpecApp == InitApp /\ [][NextApp]_vars

NoSecrets == [AUTH_TOKEN |-> "", ADMIN_PASS |-> ""]

InitPick ==
  /\ AppAtRest
  /\ env = NoSecrets
  /\ pk = PickIdle
  /\ pl = PipeIdle
  /\ ob = NoOutbound
  /\ fw = NoForward
  /\ dl = ListIdle(FALSE, "")
  /\ rw = NoRewrite
  /\ rl = NoRelay
  /\ tn = NoTunnel
  /\ xc = NoCalls
  /\ nz = NoNorm

NextPick ==
  \/ PickStart
  \/ ProbeSettle
  \/ PickReturn
  \/ PickAgain

SpecPick == InitPick /\ [][NextPick]_vars

InitPipe ==
  /\ AppAtRest
  /\ env = NoSecrets
  /\ pk = PickIdle
  /\ pl = PipeIdle
  /\ ob = NoOutbound
  /\ fw = NoForward
  /\ dl = ListIdle(FALSE, "")
  /\ rw = NoRewrite
  /\ rl = NoRelay
  /\ tn = NoTunnel
  /\ xc = NoCalls
  /\ nz = NoNorm

NextPipe ==
  \/ PipeReceive
  \/ PipeRefresh
  \/ PipeLoad
  \/ PipeProbe
  \/ PipeBody
  \/ PipeForward
  \/ PipeRead
  \/ PipeAgain

SpecPipe == InitPipe /\ [][NextPipe]_vars

InitOut ==
  /\ AppAtRest
  /\ env = NoSecrets
  /\ pk = PickIdle
  /\ pl = PipeIdle
  /\ ob \in Inbounds
  /\ fw = NoForward
  /\ dl = ListIdle(FALSE, "")
  /\ rw = NoRewrite
  /\ rl = NoRelay
  /\ tn = NoTunnel
  /\ xc = NoCalls
  /\ nz = NoNorm

NextOut ==
  \/ BuildRequest
  \/ BuildAbort

SpecOut == InitOut /\ [][NextOut]_vars

InitFwd ==
  /\ AppAtRest
  /\ env = NoSecrets
  /\ pk = PickIdle
  /\ pl = PipeIdle
  /\ ob = NoOutbound
  /\ fw \in ForwardInputs
  /\ dl = ListIdle(FALSE, "")
  /\ rw = NoRewrite
  /\ rl = NoRelay
  /\ tn = NoTunnel
  /\ xc = NoCalls
  /\ nz = NoNorm

NextFwd ==
  \/ FwdFetch
  \/ FwdHit
  \/ FwdRespond

SpecFwd == InitFwd /\ [][NextFwd]_vars

InitList ==
  /\ AppAtRest
  /\ env = NoSecrets
  /\ pk = PickIdle
  /\ pl = PipeIdle
  /\ ob = NoOutbound
  /\ fw = NoForward
  /\ \E hasKv \in BOOLEAN : dl = ListIdle(hasKv, "")
  /\ rw = NoRewrite
  /\ rl = NoRelay
  /\ tn = NoTunnel
  /\ xc = NoCalls
  /\ nz = NoNorm

NextList ==
  \/ ListCall
  \/ ListGet
  \/ ListFetch
  \/ ListPut
  \/ ListAgain
  \/ ListExpire

SpecList == InitList /\ [][NextList]_vars

InitRw ==
  /\ AppAtRest
  /\ env = NoSecrets
  /\ pk = PickIdle
  /\ pl = PipeIdle
  /\ ob = NoOutbound
  /\ fw = NoForward
  /\ dl = ListIdle(FALSE, "")
  /\ rw \in Rewrites0
  /\ rl = NoRelay
  /\ tn = NoTunnel
  /\ xc = NoCalls
  /\ nz = NoNorm

NextRw ==
  \/ RwAttr
  \/ RwCss

SpecRw == InitRw /\ [][NextRw]_vars

InitRelay ==
  /\ AppAtRest
  /\ env = NoSecrets
  /\ pk = PickIdle
  /\ pl = PipeIdle
  /\ ob = NoOutbound
  /\ fw = NoForward
  /\ dl = ListIdle(FALSE, "")
  /\ rw = NoRewrite
  /\ rl \in Relays0
  /\ tn = NoTunnel
  /\ xc = NoCalls
  /\ nz = NoNorm

NextRelay ==
  \/ \E s \in RelaySessions : RelayUpgrade(s)
  \/ \E s \in RelaySessions, e \in {"client", "server", "remote"}, data \in RelayData,
        throws \in BOOLEAN : RelayMessage(s, e, data, throws)
  \/ \E s \in RelaySessions, e \in {"client", "server", "remote"} : RelayClosing(s, e)
  \/ \E s \in RelaySessions, e \in {"client", "server", "remote"} : RelayClose(s, e)

SpecRelay == InitRelay /\ [][NextRelay]_vars

InitTunnel ==
  /\ AppAtRest
  /\ env = NoSecrets
  /\ pk = PickIdle
  /\ pl = PipeIdle
  /\ ob = NoOutbound
  /\ fw = NoForward
  /\ dl = ListIdle(FALSE, "")
  /\ rw = NoRewrite
  /\ rl = NoRelay
  /\ tn \in Tunnels0
  /\ xc = NoCalls
  /\ nz = NoNorm

NextTunnel ==
  \/ \E data \in TunnelData : TunnelMessage(data)
  \/ \E i \in 1..MaxMessages, outcome \in TunnelOutcomes : TunnelSettle(i, outcome)
  \/ TunnelClose

SpecTunnel == InitTunnel /\ [][NextTunnel]_vars

InitCalls ==
  /\ AppAtRest
  /\ env = NoSecrets
  /\ pk = PickIdle
  /\ pl = PipeIdle
  /\ ob = NoOutbound
  /\ fw = NoForward
  /\ dl = ListIdle(FALSE, "")
  /\ rw = NoRewrite
  /\ rl = NoRelay
  /\ tn = NoTunnel
  /\ xc \in Calls0
  /\ nz = NoNorm

NextCalls ==
  \/ CallStart
  \/ CallAnswer
  \/ CallFail
  \/ CallTimeout
  \/ CallsReturn

\* the handler's own steps and the timers it has armed are taken in time; no
\* such thing holds of the parties it calls
SpecCalls ==
  /\ InitCalls
  /\ [][NextCalls]_vars
  /\ WF_vars(CallStart)
  /\ WF_vars(CallTimeout)
  /\ WF_vars(CallsReturn)

InitNorm ==
  /\ AppAtRest
  /\ env = NoSecrets
  /\ pk = PickIdle
  /\ pl = PipeIdle
  /\ ob = NoOutbound
  /\ fw = NoForward
  /\ dl = ListIdle(FALSE, "")
  /\ rw = NoRewrite
  /\ rl = NoRelay
  /\ tn = NoTunnel
  /\ xc = NoCalls
  /\ nz \in Norms0

NextNorm ==
  \/ NormalizeOnce
  \/ NormalizeAgain

SpecNorm == InitNorm /\ [][NextNorm]_vars

---------------------------------------------------------------------------
(* Claims about src/app.js, checked under SpecApp                          *)

\* the slots whose invocation is past the cache lookup
InFlight == {r \in Slots : req[r].pc # "idle"}

\* C1: an authorized GET for a target whose entry a GET wrote less than
\* CACHE_TTL seconds before is answered from the cache, with the marker HIT;
\* no such GET goes on to probing or forwarding.
C1_SecondGetHit ==
  /\ (sent.route = "proxy" /\ sent.method = "GET" /\ sent.expectHit)
       => (sent.hit /\ sent.resp.marker = "HIT" /\ sent.resp.status # 502)
  /\ \A r \in InFlight : req[r].method = "GET" => ~req[r].expectHit

C1_Witness ==
  /\ sent.method = "GET" /\ sent.expectHit /\ sent.resp.marker = "HIT"
  /\ sent.target = "http://example.com"
  /\ lastStore[sent.target] > 0

\* C2: an exchange answered from the cache started no probe and no forward,
\* and no invocation that found an entry is still running.
C2_HitBypassesPipeline ==
  /\ sent.hit => (~sent.probed /\ ~sent.forwarded /\ sent.node = NoNode
                  /\ sent.resp.marker = "HIT")
  /\ \A r \in InFlight : ~req[r].hit

C2_Witness ==
  sent.hit /\ sent.method = "GET" /\ sent.resp.marker = "HIT" /\ sent.resp.status = 200

\* C3: the cache holds entries of GET only, none longer than MAX_CACHE_BYTES;
\* a POST, or a GET whose body is longer, attempts no cache write and is
\* answered with the target's status and body.
C3_NeverStored ==
  /\ \A t \in Targets, m \in Methods :
       cache[cacheKey(t, m)] # NoEntry =>
         (m = "GET" /\ cache[cacheKey(t, m)].body.bytes <= MAX_CACHE_BYTES)
  /\ (sent.up # NoUp /\ (sent.method = "POST" \/ Processed(sent.up).bytes > MAX_CACHE_BYTES))
       => /\ ~sent.putTried
          /\ sent.resp = Response(sent.up.status, "MISS", Processed(sent.up), "")

C3_Witness ==
  /\ sent.method = "GET" /\ sent.up # NoUp
  /\ sent.resp.body.bytes > MAX_CACHE_BYTES /\ sent.resp.marker = "MISS"
  /\ cache[cacheKey(sent.target, "GET")] = NoEntry

\* C4: when the cache write of a GET fails, the client still gets the target's
\* status and body.
C4_StoreFailureSwallowed ==
  sent.putFailed => (sent.resp.status = sent.up.status /\ sent.resp.body = Processed(sent.up))

---------------------------------------------------------------------------
(* Claims about the node pickers, checked under SpecPick                   *)

Probed == 1..Len(pk.sample)
Responded == {i \in Probed : pk.results[i] # Infinity}
AllFailed == Responded = {}

\* C6: when a probed candidate answered, pickFastestNode (app.js, part_000)
\* and chooseUpstreamProxy return a candidate that answered, and none that
\* answered was faster.
C6_PicksFastestResponder ==
  (pk.pc = "done" /\ pk.variant \in {"app", "worker1", "worker2", "part000"}
     /\ Responded # {})
    => \E i \in Responded :
         /\ pk.result = pk.sample[i]
         /\ \A j \in Responded : pk.results[i] <= pk.results[j]

C6_Witness ==
  /\ pk.pc = "done" /\ pk.variant = "worker2"
  /\ pk.nodes = <<"http://p1:8080", "https://p2", "10.0.0.1:3128">>
  /\ pk.results = <<100, Infinity, 50>>
  /\ pk.result = "http://10.0.0.1:3128"

\* C7 as stated: a picker returns null (or an empty value) only for an empty
\* candidate list, and the first candidate when every probe failed.
C7_FallbackFirst ==
  pk.pc = "done" =>
    /\ pk.result \in {NoNode, ""} => Len(pk.cands) = 0
    /\ (Len(pk.cands) > 0 /\ AllFailed) => pk.result = pk.cands[1]

\* C7 amended: pickFastestNode and chooseUpstreamProxy return null exactly
\* for an empty candidate list and the first candidate when every probe
\* failed; getBestNode of part_002 returns the empty string in both cases.
C7_FallbackFirstButGetBestNode ==
  pk.pc = "done" =>
    IF pk.variant = "part002"
    THEN (Len(pk.cands) = 0 \/ AllFailed) => pk.result = ""
    ELSE /\ pk.result \in {NoNode, ""} <=> Len(pk.cands) = 0
         /\ (Len(pk.cands) > 0 /\ AllFailed) => pk.result = pk.cands[1]

C7_Witness ==
  /\ pk.pc = "done" /\ pk.variant = "worker2"
  /\ pk.nodes = <<"relay.example", "10.0.0.1:3128", "https://p2">>
  /\ AllFailed /\ Len(pk.sample) = 2
  /\ pk.result = "http://10.0.0.1:3128"

---------------------------------------------------------------------------
(* Claims about the fetch handlers, checked under SpecPipe                 *)

EndsWith(s, e) == Len(s) >= Len(e) /\ SubSeq(s, Len(s) - Len(e) + 1, Len(s)) = e

\* C5: a request during which a step raised a failure ends in a response with
\* status 502 whose body carries the error's string form; it does not end in
\* a rejected promise or in another status.
C5_FailureEndsIn502 ==
  (pl.pc = "done" /\ pl.raised # "")
    => (pl.outcome = "response" /\ pl.status = 502 /\ EndsWith(pl.text, pl.raised))

---------------------------------------------------------------------------
(* Claims about the outbound request, checked under SpecOut                *)

\* C8: a target without the scheme http:// or https:// is forwarded as
\* "http://" followed by the target, a target with one unchanged.
C8_SchemeDefaulted ==
  ob.pc = "built" =>
    ob.fixed = IF BeginsWithScheme(ob.target) THEN ob.target ELSE "http://" \o ob.target

\* C9: the outbound request carries none of host, connection, content-length,
\* upgrade-insecure-requests, and every other inbound header with its value.
C9_HeadersFiltered ==
  ob.pc = "built" =>
    /\ \A n \in DOMAIN ob.headers : ToLower(n) \notin RemovedHeaders
    /\ \A l \in ob.inbound :
         ToLower(l[1]) \notin RemovedHeaders
           => (ToLower(l[1]) \in DOMAIN ob.headers /\ ob.headers[ToLower(l[1])] = l[2])

\* C10: the outbound request has a user-agent header: the inbound one, or a
\* default when the inbound request had none.
C10_UserAgentPresent ==
  ob.pc = "built" =>
    /\ "user-agent" \in DOMAIN ob.headers
    /\ \A l \in ob.inbound : ToLower(l[1]) = "user-agent" => ob.headers["user-agent"] = l[2]

---------------------------------------------------------------------------
(* Claims about the forward, checked under SpecFwd                         *)

\* C11: no response for a proxied target, forwarded or from the cache,
\* carries content-security-policy, x-frame-options, x-xss-protection,
\* content-encoding, transfer-encoding or connection.
C11_SecurityHeadersStripped ==
  (fw.pc = "done" /\ fw.kind \in {"fresh", "hit"})
    => \A n \in DOMAIN fw.headers : n \notin StrippedHeaders

\* C12: every response for a request that names a target has the CORS
\* allow-all header and a via marker, and an x-node header naming the node
\* when one was selected.
C12_CorsViaNode ==
  fw.pc = "done" =>
    /\ "access-control-allow-origin" \in DOMAIN fw.headers
    /\ fw.headers["access-control-allow-origin"] = "*"
    /\ "via" \in DOMAIN fw.headers
    /\ Truthy(fw.upstream)
         => ("x-node" \in DOMAIN fw.headers /\ fw.headers["x-node"] = fw.upstream)

\* C13: the URL fetched is the upstream without trailing slashes, "/" and the
\* target exactly when an upstream was chosen and the mode is http; otherwise
\* it is the target.
C13_PathStyleOnlyInHttpMode ==
  (fw.pc \in {"fetched", "done"} /\ fw.kind # "hit"
     /\ fw.variant \in {"worker1", "part001", "part002"})
    => fw.fetchUrl = IF Truthy(fw.upstream) /\ fw.mode = "http"
                     THEN StripSlashes(fw.upstream) \o "/" \o FwdTarget
                     ELSE FwdTarget

\* C14: in mode api or http the body returned is the target's body unchanged,
\* also when it is HTML.
C14_PassthroughOutsideRewrite ==
  (fw.pc = "done" /\ fw.kind = "fresh" /\ fw.mode \in {"api", "http"}) => ~fw.rewritten

---------------------------------------------------------------------------
(* Claims about the node list, checked under SpecList                      *)

FetchFailed == dl.fetched \in {"notok", "neterr"}

\* C15: when the fetch of the external list fails (network error or status
\* not OK), load raises nothing and returns the empty list.
C15_LoadFailureGivesEmpty ==
  (dl.pc = "done" /\ dl.op = "load" /\ FetchFailed)
    => (~dl.raised /\ dl.nodes = << >>)

\* C16: refresh never raises, returns false when the fetch failed, and
\* otherwise (the write to DNS_KV not failing) returns true with the cached
\* entry overwritten by the fetched text.
C16_RefreshReportsFetch ==
  (dl.pc = "done" /\ dl.op = "refresh")
    => /\ ~dl.raised
       /\ FetchFailed => (~dl.ok /\ dl.kv = dl.kvBefore)
       /\ (~FetchFailed /\ ~dl.putFailed) => (dl.ok /\ (dl.hasKv => dl.kv = dl.txt))

---------------------------------------------------------------------------
(* Claims about the rewriter *)

\* the reference starts at the root of the host: /path, not //host/path
RootRelative(u) == StartsWith(u, "/") /\ ~StartsWith(u, "//")

\* the reference names its host and takes the scheme of the page
ProtocolRelative(u) == StartsWith(u, "//")

\* the reference is relative to the directory of the page
Relative(u) == ~BeginsWithScheme(u) /\ ~StartsWith(u, "/")

\* C17: a root-relative reference is resolved to the origin of the target
\* followed by the reference, whatever directory the target has, and the
\* attribute gets ?url= followed by that, percent-encoded
C17_RootRelativeFromOrigin ==
  (rw.pc \in {"attr", "done"} /\ rw.variant \in {"worker1", "app"} /\ RootRelative(rw.ref))
    => /\ rw.resolved = UrlOrigin(rw.target) \o rw.ref
       /\ rw.value = "?url=" \o encodeURIComponent(UrlOrigin(rw.target) \o rw.ref)

C19_ProtocolRelativeGetsHttp ==
  (rw.pc \in {"attr", "done"} /\ rw.variant \in {"worker1", "app"} /\ ProtocolRelative(rw.ref))
    => /\ rw.resolved = "http:" \o rw.ref
       /\ rw.value = "?url=" \o encodeURIComponent("http:" \o rw.ref)

\* //cdn.example.com/a.js in a page of a target with a directory
\* has become http://cdn.example.com/a.js
C19_Witness ==
  /\ rw.pc = "done"
  /\ rw.variant = "worker1"
  /\ rw.target = "http://example.com/dir/page.html"
  /\ rw.ref = "//cdn.example.com/a.js"
  /\ rw.resolved = "http://cdn.example.com/a.js"
  /\ rw.final = "?url=http%3A%2F%2Fcdn.example.com%2Fa.js"

\* what decodeURIComponent makes of the text behind ?url= in the attribute
Decoded(value) == decodeURIComponent(SubSeq(value, Len("?url=") + 1, Len(value)))

\* C20: for a reference that is an absolute http(s) URL already, the
\* rewriter encodes exactly that URL behind ?url=, whatever the base is, and
\* decoding the attribute of the page gives the URL back
C20_AbsoluteRoundTrip ==
  (rw.pc = "done" /\ rw.variant \in {"worker1", "part002"} /\ BeginsWithScheme(rw.ref))
    => /\ rw.resolved = rw.ref
       /\ rw.value = "?url=" \o encodeURIComponent(rw.ref)
       /\ StartsWith(rw.final, "?url=")
       /\ Decoded(rw.final).ok
       /\ Decoded(rw.final).val = rw.ref

---------------------------------------------------------------------------
(* Claims about the relay, checked under SpecRelay                         *)

\* C21: once the close event has come on the client or on the server of a
\* session, the live set does not hold the client of that session; a closed
\* socket stays closed, so this holds from then on
C21_ClosedSessionNotLive ==
  rl.variant \in {"WSProxy", "app", "dashboard"}
    => \A s \in RelaySessions :
         (rl.sess[s].up /\ \E e \in Ends(rl.variant) : rl.sess[s].state[e] = "closed")
           => s \notin rl.sockets

\* the server of one session has closed while its client has not, and a
\* later session is live
C21_Witness ==
  /\ rl.variant = "WSProxy"
  /\ rl.sess[1].up
  /\ rl.sess[1].state["server"] = "closed"
  /\ rl.sess[1].state["client"] = "open"
  /\ rl.sockets = {2}

\* C22: a message event on a socket whose peer is closing or closed raises
\* nothing out of any of the listeners
C22_NoRaiseToSender ==
  (rl.last.session # 0 /\ rl.last.peer \in {"closing", "closed"}) => ~rl.last.raised

\* a message came on the client of src/app.js while the server was closed:
\* the first listener skipped the send, the second swallowed its error
C22_Witness ==
  /\ rl.variant = "app"
  /\ rl.last.session # 0
  /\ rl.last.on = "client"
  /\ rl.last.peer = "closed"
  /\ rl.last.sends = 0
  /\ ~rl.last.raised

\* the last messages sent on socket e of session s
SentLast(s, e, n) ==
  LET out == rl.sess[s].out[e]
  IN  IF n > Len(out) THEN << >> ELSE SubSeq(out, Len(out) - n + 1, Len(out))

\* C23: a message event on a socket of a session whose two sockets are open
\* is followed by a send of the same data on the peer, from the client side
\* and from the server side
C23_RelayedBothWays ==
  (rl.last.session # 0 /\ rl.last.self = "open" /\ rl.last.peer = "open")
    => /\ rl.last.sends >= 1
       /\ SentLast(rl.last.session, Peer(rl.variant, rl.last.on), rl.last.sends)
            = Repeat(rl.last.data, rl.last.sends)

\* in src/worker.js a message of the remote has been sent on the server
\* after a message of the server was sent on the remote
C23_Witness ==
  /\ rl.variant = "worker1"
  /\ rl.last.session = 1
  /\ rl.last.on = "remote"
  /\ rl.last.data = "pong"
  /\ rl.sess[1].out["server"] = <<"pong">>
  /\ rl.sess[1].out["remote"] = <<"ping">>

---------------------------------------------------------------------------
(* Claims about the tunnel, checked under SpecTunnel                       *)

\* the message is not a command the tunnel knows: not a string, not JSON, or
\* JSON that is not a fetch command with a url
Unrecognised(data) == data # "fetch"

\* C24: every message that is malformed or not a recognised command is
\* answered with a reply of type error or unknown
C24_MalformedAnswered ==
  \A i \in 1..Len(tn.msgs) :
    Unrecognised(tn.msgs[i].data) => tn.msgs[i].reply \in {"error", "unknown"}

\* C25: a fetch command whose outbound request fails or times out while the
\* socket is open gets one reply, of type error, and the handler does not
\* close the socket: only the client does
C25_FetchFailureInBand ==
  /\ \A i \in 1..Len(tn.msgs) :
       (tn.msgs[i].outcome \in {"failed", "timeout", "bodyFailed"} /\ tn.msgs[i].open)
         => tn.msgs[i].reply = "error"
  /\ ~tn.open => tn.closedBy = "client"

\* after the error reply for a fetch that timed out, a fetch command received
\* later on the same socket was answered with its response
C25_Witness ==
  /\ tn.variant = "worker2"
  /\ tn.open
  /\ Len(tn.msgs) >= 2
  /\ tn.msgs[1].outcome = "timeout"
  /\ tn.msgs[1].reply = "error"
  /\ tn.msgs[2].data = "fetch"
  /\ tn.msgs[2].afterFailure
  /\ tn.msgs[2].reply = "response"

---------------------------------------------------------------------------
(* Claims about the external calls, checked under SpecCalls                *)

\* C26: every external call is bounded by a timeout, so the handler of every
\* request returns in the end, even when a party it calls never answers
C26_HandlerReturns == <>(xc.pc = "done")

---------------------------------------------------------------------------
(* Claims about the cache marker of src/app.js, checked under SpecApp      *)

\* the body of the response handle() has returned is the body the target
\* sent for this request, as handle() processed it
FromForward ==
  sent.forwarded /\ sent.up # NoUp /\ sent.resp.text = "" /\ sent.resp.body = Processed(sent.up)

\* C27: every response for a proxied target carries the cache marker, which
\* is HIT exactly when its body was served from the cache and MISS exactly
\* when its body came from a forward made for this request
C27_MarkerTellsSource ==
  (sent # NoExchange /\ sent.route = "proxy" /\ sent.target # "")
    => /\ sent.resp.marker \in {"HIT", "MISS"}
       /\ sent.resp.marker = "HIT" <=> sent.hit
       /\ sent.resp.marker = "MISS" <=> FromForward

---------------------------------------------------------------------------
(* Claims about node normalisation, checked under SpecNorm                 *)

\* C28: normalising a normalised node string gives the same string again
C28_NormalizeIdempotent ==
  nz.pc = "twice" => nz.twice = nz.once

\* a string the first normalisation changed, by trimming it or by putting
\* the scheme in front, and the second left alone
C28_Witness ==
  /\ nz.pc = "twice"
  /\ nz.once # nz.given
  /\ nz.twice = nz.once
  /\ StartsWith(nz.once, "http://")

---------------------------------------------------------------------------
(* Claims about the probes of the pickers, checked under SpecPick          *)

\* the probes whose request has been sent: those settled and those awaited
ProbesStarted ==
  {i \in 1..Len(pk.sample) : pk.results[i] # Pending} \cup Awaited

\* C29: while a picker is probing, the probe of every sampled candidate has
\* been started, and a picker returns only after every probe has settled
C29_ProbesConcurrentThenJoined ==
  /\ pk.pc = "probing" => ProbesStarted = 1..Len(pk.sample)
  /\ pk.pc = "done" => \A i \in 1..Len(pk.sample) : pk.results[i] # Pending

\* the probes that answered, and among them those with the least time
Responding == {i \in 1..Len(pk.sample) : pk.results[i] \notin {Pending, Infinity}}

Fastest == {i \in Responding : \A j \in Responding : pk.results[i] <= pk.results[j]}

\* C30: when two or more responding candidates share the least elapsed time,
\* the picker returns the one of them that comes first in the list
C30_TieGoesToFirst ==
  (pk.pc = "done" /\ Cardinality(Fastest) >= 2)
    => \E i \in Fastest : /\ \A j \in Fastest : i <= j
                          /\ pk.result = pk.sample[i]

\* two different candidates answered in the same least time, behind a slower
\* one, and the picker returned the earlier of the two
C30_Witness ==
  /\ pk.pc = "done" /\ pk.variant \in {"worker2", "part000"}
  /\ Len(pk.sample) = 3
  /\ Fastest = {2, 3}
  /\ pk.results[1] # Infinity
  /\ pk.sample[2] # pk.sample[3]
  /\ pk.result = pk.sample[2]

---------------------------------------------------------------------------
(* Claims about the hard timeout of the forward, checked under SpecCalls   *)

\* the handlers that wrap the forward in fetchWithTimeout
TimedForward == {"worker1", "app"}

\* C31: the hard timeout covers the whole forward call: while the handler
\* awaits the outbound fetch or the body of its response, the timer that
\* aborts the request is running
C31_TimeoutCoversWholeCall ==
  (/\ xc.pc = "await"
   /\ xc.variant \in TimedForward
   /\ xc.plan[xc.at] \in {"forward", "body"})
    => xc.armed

---------------------------------------------------------------------------
(* Claims about the entries of the response cache, checked under SpecApp   *)

\* C32: an entry that is in the cache keeps its status and its body in every
\* step, whatever requests are in flight, until it expires and is gone
C32_EntryImmutable ==
  [][\A k \in CacheKeys :
       cache[k] # NoEntry
         => \/ cache'[k] = NoEntry
            \/ /\ cache'[k].status = cache[k].status
               /\ cache'[k].body = cache[k].body]_vars

\* the entry under the key of the exchange just completed
SentEntry == cache[cacheKey(sent.target, sent.method)]

\* the exchange just completed wrote its body to the cache
SentStored == sent # NoExchange /\ sent.putTried /\ ~sent.putFailed /\ sent.resp.marker = "MISS"

\* C33: the body stored for an HTML response has been rewritten and injected
\* once; it is the body the storing MISS returned, and a HIT returns it as it
\* is stored, not rewritten or injected again
C33_CachedBodyAlreadyRewritten ==
  /\ \A k \in CacheKeys :
       (cache[k] # NoEntry /\ cache[k].body.html) => cache[k].body.rewrites = 1
  /\ SentStored => (SentEntry # NoEntry /\ SentEntry.body = sent.resp.body)
  /\ (sent # NoExchange /\ sent.hit)
       => (sent.resp.body = SentEntry.body /\ sent.resp.body.rewrites <= 1)

\* a HIT has returned a page that went through rewriting and injection once,
\* some time after it was stored
C33_Witness ==
  /\ sent # NoExchange /\ sent.hit /\ sent.resp.marker = "HIT"
  /\ sent.resp.body.html /\ sent.resp.body.rewrites = 1
  /\ sent.resp.body.bytes > InjectLen
  /\ SentEntry.age > 0

---------------------------------------------------------------------------
(* Claims about the write-back of the node list, checked under SpecList    *)

\* load found a list in DNS_KV
FoundCached == dl.kvBefore # "" /\ ~dl.getFailed

\* C34: a load that finds no list in DNS_KV fetches the external source and
\* writes the text to DNS_KV; a load that finds one returns it without a
\* fetch; and a failed write leaves what load returns as it is
C34_LoadWritesBack ==
  (dl.pc = "done" /\ dl.op = "load" /\ dl.hasKv)
    => /\ FoundCached
            => /\ dl.fetched = ""
               /\ dl.nodes = parseDnsText(dl.kvBefore)
               /\ dl.kv = dl.kvBefore
       /\ ~FoundCached => dl.fetched # ""
       /\ (~FoundCached /\ dl.fetched = "ok")
            => /\ ~dl.raised
               /\ dl.nodes = parseDnsText(dl.txt)
               /\ ~dl.putFailed => dl.kv = dl.txt
               /\ dl.putFailed => dl.kv = dl.kvBefore

\* a load has been answered from the list an earlier operation wrote to
\* DNS_KV, without a fetch
C34_Witness ==
  /\ dl.pc = "done" /\ dl.op = "load" /\ dl.variant \in {"worker1", "worker3"}
  /\ FoundCached
  /\ dl.fetched = ""
  /\ Len(dl.nodes) = 2

\* a load fetched the list, the write to DNS_KV failed, and the list is
\* returned all the same
C34_WitnessPutFailed ==
  /\ dl.pc = "done" /\ dl.op = "load" /\ dl.variant \in {"worker1", "worker3"}
  /\ dl.fetched = "ok" /\ dl.putFailed
  /\ Len(dl.nodes) = 2

---------------------------------------------------------------------------
(* Claims about the body of the forwarded request, checked under SpecCalls *)

\* the read of the client's body has been awaited and has answered
UploadRead ==
  \E i \in 1..Len(xc.log) : xc.plan[i] = "upload" /\ xc.log[i] = "answered"

\* C35: the outbound request has a body only when the method is neither GET
\* nor HEAD; the client's body is read at most once, and when the outbound
\* request is sent with a body that read has completed
C35_BodyReadOnceBeforeForward ==
  /\ xc.issued => (xc.outBody <=> xc.method \notin {"GET", "HEAD"})
  /\ xc.reads <= 1
  /\ xc.reads = 1 => xc.method \notin {"GET", "HEAD"}
  /\ (xc.issued /\ xc.outBody) => (xc.reads = 1 /\ UploadRead)
  /\ (xc.pc = "await" /\ xc.plan[xc.at] = "upload") => ~xc.issued

\* a POST has been forwarded with its body, read once, and the handler has
\* returned its response
C35_Witness ==
  /\ xc.pc = "done" /\ xc.status = "ok"
  /\ xc.method = "POST"
  /\ xc.issued /\ xc.outBody
  /\ xc.reads = 1 /\ UploadRead

---------------------------------------------------------------------------
(* Claims about the teardown of a relay session, checked under SpecRelay   *)

\* C36: once the close event of one socket of a session has run, the relay
\* has closed the other socket of the session too: none is left open
C36_CloseReleasesBoth ==
  \A s \in RelaySessions :
    (/\ rl.variant \in {"WSProxy", "worker1"}
     /\ rl.sess[s].up
     /\ \E e \in Ends(rl.variant) : rl.sess[s].state[e] = "closed")
      => \A d \in Ends(rl.variant) : rl.sess[s].state[d] # "open"

\* C39: a message received once on one socket of a session is sent at most
\* once on the other socket
C39_NoDuplicate ==
  rl.last # NoEvent => rl.last.sends <= 1

---------------------------------------------------------------------------
(* Claims about HEAD and about requests without the token, checked under   *)
(* SpecApp                                                                 *)

\* C37: no HEAD request is answered from the cache: there is no entry under
\* a key of HEAD, no HEAD exchange is a hit, and none in flight has found one
C37_HeadNeverHits ==
  /\ \A t \in Targets : cache[cacheKey(t, "HEAD")] = NoEntry
  /\ (sent # NoExchange /\ sent.method = "HEAD")
       => (~sent.hit /\ sent.resp.marker # "HIT")
  /\ \A r \in Slots : req[r].method = "HEAD" => ~req[r].hit

\* a HEAD for a target whose GET entry is in the cache and fresh has been
\* looked up, forwarded and answered with MISS
C37_Witness ==
  /\ sent # NoExchange /\ sent.method = "HEAD" /\ sent.route = "proxy"
  /\ sent.expectHit /\ sent.lookedUp
  /\ ~sent.hit /\ sent.forwarded
  /\ sent.resp.marker = "MISS"
  /\ cache[cacheKey(sent.target, "GET")] # NoEntry

\* the exchange just completed named a target and came without the token
\* that is configured, or while none is configured
SentWithoutToken ==
  /\ sent # NoExchange
  /\ sent.named
  /\ (env.AUTH_TOKEN = "" \/ sent.presented # env.AUTH_TOKEN)

\* what handle() did not do for the exchange just completed
NothingProxied ==
  /\ ~sent.lookedUp /\ ~sent.hit
  /\ ~sent.forwarded /\ ~sent.putTried
  /\ sent.resp.marker = "" /\ sent.resp.body = NoBody

\* C38, as stated: a request that names a target and comes without the
\* configured token gets 401 and causes no cache lookup, no probe, no
\* forward and no cache write
C38_NoTokenGets401 ==
  SentWithoutToken => (sent.resp.status = 401 /\ ~sent.probed /\ NothingProxied)

\* C38, amended: such a request causes no cache lookup, no forward and no
\* cache write and is served nothing cached; unless it carries the admin or
\* the ws parameter it gets 401 and causes no probe; and no request in
\* flight past the check came without the token
C38_NoTokenNothingProxied ==
  /\ SentWithoutToken
       => /\ NothingProxied
          /\ sent.route \in {"admin", "ws", "denied"}
          /\ sent.route = "denied" => (sent.resp.status = 401 /\ ~sent.probed)
          /\ sent.route = "ws" => (sent.resp.status = 501 /\ ~sent.probed)
  /\ \A r \in Slots :
       req[r].pc # "idle" => (env.AUTH_TOKEN # "" /\ req[r].presented = env.AUTH_TOKEN)

\* a request with a wrong token has been answered 401 while an entry is in
\* the cache
C38_Witness ==
  /\ SentWithoutToken
  /\ env.AUTH_TOKEN = "secret" /\ sent.presented = "wrong"
  /\ sent.route = "denied" /\ sent.resp.status = 401
  /\ \E k \in CacheKeys : cache[k] # NoEntry

====
